---------------------------- MODULE Spec2Model ----------------------------
(***************************************************************************)
(* A model of the statistical core of the CNV caller:                      *)
(*   src/callCNVs/callCNVs.py        applyHMM, callCNVsOneSample, buildCNVs *)
(*   src/CNCalls/copyNumbersCalls.py CNCalls and its helpers                *)
(*   src/CNVCalls/likelihoods.py     counts2likelihoods                     *)
(*                                                                         *)
(* Numbers.  The code computes in IEEE floating point (numpy.float128 for  *)
(* the forward probabilities).  The model computes in exact rationals      *)
(* extended with the three IEEE specials, so that a division by zero has   *)
(* the outcome numpy gives it (a warning and inf or nan, no exception).    *)
(* A number is a pair <<n, d>> with d >= 0 in lowest terms:                *)
(*      d > 0         the rational n / d                                    *)
(*      <<1, 0>>      +inf         <<-1, 0>>   -inf        <<0, 0>>   nan   *)
(* Signed zeros are not told apart, and rounding and underflow of products *)
(* are not modelled: an input that is 0 is an exact 0.                     *)
(***************************************************************************)
EXTENDS Integers, Sequences, FiniteSets, TLC

Abs(x) == IF x < 0 THEN -x ELSE x

Sign(x) == IF x < 0 THEN -1 ELSE IF x > 0 THEN 1 ELSE 0

RECURSIVE GCD(_, _)
GCD(a, b) == IF b = 0 THEN a ELSE GCD(b, a % b)

\* the number n / d in lowest terms (d >= 0)
Norm(n, d) ==
    IF d = 0 THEN <<Sign(n), 0>>
    ELSE IF n = 0 THEN <<0, 1>>
    ELSE LET g == GCD(Abs(n), d) IN <<n \div g, d \div g>>

Frac(n, d) == Norm(n, d)

Zero == <<0, 1>>
One == <<1, 1>>
MinusOne == <<-1, 1>>
NaN == <<0, 0>>
PInf == <<1, 0>>
NInf == <<-1, 0>>

IsNaN(a) == a = NaN
IsFinite(a) == a[2] > 0

\* IEEE product: inf * 0 = nan, nan * x = nan.  Factors are cancelled
\* crosswise before multiplying to keep the integers small.
RMul(a, b) ==
    IF a[2] = 0 \/ b[2] = 0 THEN Norm(a[1] * b[1], a[2] * b[2])
    ELSE IF a[1] = 0 \/ b[1] = 0 THEN Zero
    ELSE LET g1 == GCD(Abs(a[1]), b[2])
             g2 == GCD(Abs(b[1]), a[2])
         IN  <<(a[1] \div g1) * (b[1] \div g2), (a[2] \div g2) * (b[2] \div g1)>>

\* IEEE reciprocal: 1/0 = inf, 1/inf = 0, 1/nan = nan
RInv(b) ==
    IF b[1] > 0 THEN <<b[2], b[1]>>
    ELSE IF b[1] < 0 THEN <<-b[2], -b[1]>>
    ELSE <<b[2], 0>>

\* IEEE quotient: x/0 = +-inf for x # 0, 0/0 = nan, inf/inf = nan, x/inf = 0
RDiv(a, b) == RMul(a, RInv(b))

\* sum of two finite numbers
RAdd(a, b) ==
    LET g == GCD(a[2], b[2])
    IN  Norm(a[1] * (b[2] \div g) + b[1] * (a[2] \div g), (a[2] \div g) * b[2])

\* a > b as IEEE decides it: false as soon as one side is nan
RGt(a, b) ==
    IF IsNaN(a) \/ IsNaN(b) THEN FALSE
    ELSE IF a = b THEN FALSE
    ELSE IF a[2] = 0 THEN a[1] > 0
    ELSE IF b[2] = 0 THEN b[1] < 0
    ELSE LET g == GCD(a[2], b[2])
         IN  a[1] * (b[2] \div g) > b[1] * (a[2] \div g)

RGe(a, b) == RGt(a, b) \/ (~IsNaN(a) /\ a = b)


(***************************************************************************)
(* Python values that cross a call boundary carry their type: applyHMM     *)
(* passes its arguments by position, so what callCNVsOneSample receives    *)
(* under a parameter name is decided by the position, not by the name.     *)
(***************************************************************************)
States == 0 .. 3

V4(a, b, c, d) == [s \in States |-> CASE s = 0 -> a [] s = 1 -> b [] s = 2 -> c [] s = 3 -> d]

PyMatrix(m) == [kind |-> "ndarray2d", val |-> m]
PyVector(v) == [kind |-> "list", val |-> v]
PyStr(s) == [kind |-> "str", val |-> s]

\* exon indexes are 0-based as in the code; exons is a sequence, exon e is exons[e + 1]
Exon(exons, e) == exons[e + 1]

\* the likelihoods of exon e for the sample being decoded
LikRow(likelihoods, e) == likelihoods[e + 1]

NoCallRow == V4(MinusOne, MinusOne, MinusOne, MinusOne)

(***************************************************************************)
(* callCNVs.transitions.adjustTransMatrix is not among the source files.   *)
(* Modelled from the specification, section 4.E, with the exponent of the  *)
(* power law p = 1: T for d <= 0, the priors in every row for d >= dmax,   *)
(* (1 - d/dmax) T + (d/dmax) PI in between.  Applied to anything but a     *)
(* matrix and a vector of priors it cannot deliver a matrix of numbers:    *)
(* the use of its result at lines 229-231 then raises.                     *)
(***************************************************************************)
adjustTransMatrix(transMatrix, priors, d, dmax) ==
    IF transMatrix.kind # "ndarray2d" \/ priors.kind # "list" THEN [ok |-> FALSE]
    ELSE IF d <= 0 THEN [ok |-> TRUE, m |-> transMatrix.val]
    ELSE IF d >= dmax THEN [ok |-> TRUE, m |-> [p \in States |-> priors.val]]
    ELSE [ok |-> TRUE,
          m |-> [p \in States |-> [c \in States |->
                    RAdd(RMul(Frac(dmax - d, dmax), transMatrix.val[p][c]),
                         RMul(Frac(d, dmax), priors.val[c]))]]]

(***************************************************************************)
(* buildCNVs, src/callCNVs/callCNVs.py lines 313-360.                      *)
(* The four buffers are sequences over the called exons since the last     *)
(* reset; position i of the model is index i - 1 of the code.              *)
(* qualityScore = math.log(q): the model keeps q, the argument of the      *)
(* logarithm, as Log(q).  math.log raises ValueError for q <= 0 and for    *)
(* -inf, returns nan for nan and inf for +inf.                             *)
(***************************************************************************)
Log(q) == [logOf |-> q]

LogRaises(q) == ~IsNaN(q) /\ ~RGt(q, Zero)

Last(s) == s[Len(s)]

\* numpy's argmax: the first index holding the maximum, the first nan if there is one
RECURSIVE ArgMaxFrom(_, _, _)
ArgMaxFrom(v, i, best) ==
    IF i > 3 THEN best
    ELSE IF IsNaN(v[best]) THEN best
    ELSE IF IsNaN(v[i]) \/ RGt(v[i], v[best]) THEN ArgMaxFrom(v, i + 1, i)
    ELSE ArgMaxFrom(v, i + 1, best)

argmax(v) == ArgMaxFrom(v, 1, 0)

\* lines 319-325: a bogus last exon in state CN2 when the last state is not CN2
appendBogusExon(buf, lastState) ==
    IF lastState # 2
    THEN [calledExons |-> Append(buf.calledExons, -1),
          path |-> Append(buf.path, V4(0, 0, lastState, 0)),
          bestPathProbas |-> Append(buf.bestPathProbas,
                                V4(Zero, Zero, Last(buf.bestPathProbas)[lastState], Zero)),
          CN2PathProbas |-> Append(buf.CN2PathProbas, Last(buf.CN2PathProbas))]
    ELSE buf

\* lines 327-333: the state of the called exon at position i, backtracking from
\* the last position, which is in state CN2
RECURSIVE mostLikelyState(_, _)
mostLikelyState(path, i) ==
    IF i = Len(path) THEN 2 ELSE path[i + 1][mostLikelyState(path, i + 1)]

mostLikelyStates(path) == [i \in 1 .. Len(path) |-> mostLikelyState(path, i)]

\* lines 346-353: the argument of the logarithm of the CNV that starts at
\* position first and ends right before position cei
qualityRatio(buf, mls, first, cei) ==
    LET q0 == RDiv(buf.bestPathProbas[cei][mls[cei]], buf.CN2PathProbas[cei])
    IN  IF first > 1
        THEN RMul(RDiv(q0, buf.bestPathProbas[first - 1][mls[first - 1]]),
                  buf.CN2PathProbas[first - 1])
        ELSE q0

\* closeRun without the test of line 344: a run of CN2 is reported like any other
closeRunAnyState(buf, mls, sampleID, cei, currentState, first, acc) ==
    LET q == qualityRatio(buf, mls, first, cei)
    IN  IF LogRaises(q) THEN [ok |-> FALSE, CNVs |-> acc.CNVs]
        ELSE [ok |-> TRUE,
              CNVs |-> Append(acc.CNVs,
                        [cnState |-> currentState,
                         firstExonIdx |-> buf.calledExons[first],
                         lastExonIdx |-> buf.calledExons[cei - 1],
                         qualityScore |-> Log(q),
                         sampleID |-> sampleID])]

\* closeRun with the new CNV put in front of the list instead of appended (line 354)
closeRunPrepend(buf, mls, sampleID, cei, currentState, first, acc) ==
    LET q == qualityRatio(buf, mls, first, cei)
    IN  IF currentState = 2 THEN acc
        ELSE IF LogRaises(q) THEN [ok |-> FALSE, CNVs |-> acc.CNVs]
        ELSE [ok |-> TRUE,
              CNVs |-> <<[cnState |-> currentState,
                          firstExonIdx |-> buf.calledExons[first],
                          lastExonIdx |-> buf.calledExons[cei - 1],
                          qualityScore |-> Log(q),
                          sampleID |-> sampleID]>> \o acc.CNVs]

\* closeRun with the CNV ending at position cei, where the state has
\* changed, instead of the position before (line 355)
closeRunEndAtChange(buf, mls, sampleID, cei, currentState, first, acc) ==
    LET q == qualityRatio(buf, mls, first, cei)
    IN  IF currentState = 2 THEN acc
        ELSE IF LogRaises(q) THEN [ok |-> FALSE, CNVs |-> acc.CNVs]
        ELSE [ok |-> TRUE,
              CNVs |-> Append(acc.CNVs,
                        [cnState |-> currentState,
                         firstExonIdx |-> buf.calledExons[first],
                         lastExonIdx |-> buf.calledExons[cei],
                         qualityScore |-> Log(q),
                         sampleID |-> sampleID])]

\* lines 344-355: the run of currentState that starts at position first ends
\* right before position cei; it is a CNV unless currentState is CN2
closeRun(buf, mls, sampleID, cei, currentState, first, acc) ==
    LET q == qualityRatio(buf, mls, first, cei)
    IN  IF currentState = 2 THEN acc
        ELSE IF LogRaises(q) THEN [ok |-> FALSE, CNVs |-> acc.CNVs]
        ELSE [ok |-> TRUE,
              CNVs |-> Append(acc.CNVs,
                        [cnState |-> currentState,
                         firstExonIdx |-> buf.calledExons[first],
                         lastExonIdx |-> buf.calledExons[cei - 1],
                         qualityScore |-> Log(q),
                         sampleID |-> sampleID])]

\* lines 335-358: walk through the most likely states from position cei on
RECURSIVE walkStates(_, _, _, _, _, _, _)
walkStates(buf, mls, sampleID, cei, currentState, first, acc) ==
    IF cei > Len(buf.calledExons) \/ ~acc.ok THEN acc
    ELSE IF mls[cei] = currentState
    THEN walkStates(buf, mls, sampleID, cei + 1, currentState, first, acc)
    ELSE walkStates(buf, mls, sampleID, cei + 1, mls[cei], cei,
                    closeRun(buf, mls, sampleID, cei, currentState, first, acc))

\* the buffers as the call leaves them, and the CNVs returned, or ok = FALSE
\* when math.log raised
buildCNVs(buf0, lastState, sampleID) ==
    LET buf == appendBogusExon(buf0, lastState)
        mls == mostLikelyStates(buf.path)
        res == walkStates(buf, mls, sampleID, 2, mls[1], 1, [ok |-> TRUE, CNVs |-> <<>>])
    IN  [ok |-> res.ok, CNVs |-> res.CNVs, buf |-> buf]

(***************************************************************************)
(* callCNVsOneSample, src/callCNVs/callCNVs.py lines 162-282.              *)
(* a is the record of the arguments as bound to the parameters, st the     *)
(* record of the local variables; st.pc is "loop" while the for loop of    *)
(* line 190 runs, "returned" after line 278, "raised" after line 282.      *)
(***************************************************************************)
EmptyBuffers ==
    [calledExons |-> <<>>, path |-> <<>>, bestPathProbas |-> <<>>, CN2PathProbas |-> <<>>]

Buffers(st) ==
    [calledExons |-> st.calledExons, path |-> st.path,
     bestPathProbas |-> st.bestPathProbas, CN2PathProbas |-> st.CN2PathProbas]

WithBuffers(st, buf) ==
    [st EXCEPT !.calledExons = buf.calledExons, !.path = buf.path,
               !.bestPathProbas = buf.bestPathProbas, !.CN2PathProbas = buf.CN2PathProbas]

\* lines 197, 249, 273: any((p[2] != 2) for p in path)
anyPathToCN2NotFromCN2(path) == \E i \in 1 .. Len(path) : path[i][2] # 2

\* lines 164-187
initLocals(a) ==
    [pc |-> "loop", exonIndex |-> 0, CNVs |-> <<>>,
     probsPrev |-> V4(Zero, Zero, One, Zero),
     prevChrom |-> Exon(a.exons, 0).chrom, prevEnd |-> -a.dmax,
     calledExons |-> <<>>, path |-> <<>>, bestPathProbas |-> <<>>, CN2PathProbas |-> <<>>,
     distFromPrevEx |-> "unbound"]

\* lines 280-282: whatever is raised inside the try leaves as Exception(sampleID)
raise(st) == [st EXCEPT !.pc = "raised"]

\* changeChrom without lines 197-208: the chromosome is noted, nothing is built or reset
changeChromKeepBuffers(a, st, e) ==
    [st EXCEPT !.prevChrom = Exon(a.exons, e).chrom]

\* lines 195-208: the current exon is on another chromosome than the previous called one
changeChrom(a, st, e) ==
    LET b == buildCNVs(Buffers(st), argmax(Last(st.bestPathProbas)), a.sampleID)
        built == anyPathToCN2NotFromCN2(st.path)
    IN  IF built /\ ~b.ok THEN raise(WithBuffers(st, b.buf))
        ELSE [st EXCEPT !.CNVs = IF built THEN st.CNVs \o b.CNVs ELSE st.CNVs,
                        !.probsPrev = V4(Zero, Zero, One, Zero),
                        !.prevChrom = Exon(a.exons, e).chrom,
                        !.prevEnd = -a.dmax,
                        !.calledExons = <<>>, !.path = <<>>,
                        !.bestPathProbas = <<>>, !.CN2PathProbas = <<>>]

\* lines 225-236: the inner loop over prevState for one currentState
RECURSIVE scanPrevStates(_, _, _, _, _, _, _)
scanPrevStates(probsPrev, adj, lik, currentState, prevState, probMax, prevStateMax) ==
    IF prevState > 3 THEN [probMax |-> probMax, prevStateMax |-> prevStateMax]
    ELSE LET prob == RMul(RMul(probsPrev[prevState], adj[prevState][currentState]),
                          lik[currentState])
         IN  IF RGt(prob, probMax)
             THEN scanPrevStates(probsPrev, adj, lik, currentState, prevState + 1, prob, prevState)
             ELSE scanPrevStates(probsPrev, adj, lik, currentState, prevState + 1, probMax, prevStateMax)

\* forwardPass with bestPrevState defaulting to CN0 instead of CN2 (line 220)
forwardPassDefaultCN0(probsPrev, adj, lik) ==
    LET scan == [c \in States |-> scanPrevStates(probsPrev, adj, lik, c, 0, MinusOne, -1)]
    IN  [probsCurrent |-> [c \in States |-> scan[c].probMax],
         bestPrevState |-> [c \in States |->
                               IF RGt(scan[c].probMax, Zero) THEN scan[c].prevStateMax ELSE 0],
         CN2PathProba |-> RMul(RMul(probsPrev[2], adj[2][2]), lik[2])]

\* lines 220-242: probsCurrent, bestPrevState and CN2PathProba of the current exon
forwardPass(probsPrev, adj, lik) ==
    LET scan == [c \in States |-> scanPrevStates(probsPrev, adj, lik, c, 0, MinusOne, -1)]
    IN  [probsCurrent |-> [c \in States |-> scan[c].probMax],
         bestPrevState |-> [c \in States |->
                               IF RGt(scan[c].probMax, Zero) THEN scan[c].prevStateMax ELSE 2],
         CN2PathProba |-> RMul(RMul(probsPrev[2], adj[2][2]), lik[2])]

\* lines 248-262: every state of the current exon has CN2 as best predecessor
rebaseOnCN2(a, st, fw) ==
    LET built == anyPathToCN2NotFromCN2(st.path)
        b == buildCNVs(Buffers(st), 2, a.sampleID)
        cnvs == IF built THEN st.CNVs \o b.CNVs ELSE st.CNVs
    IN  IF built /\ ~b.ok THEN [st |-> raise(st), fw |-> fw]
        ELSE IF Len(st.calledExons) > 0
        THEN [st |-> [WithBuffers(st, EmptyBuffers) EXCEPT !.CNVs = cnvs],
              fw |-> [fw EXCEPT
                        !.probsCurrent = [c \in States |-> RDiv(fw.probsCurrent[c], st.probsPrev[2])],
                        !.CN2PathProba = RDiv(fw.CN2PathProba, Last(st.CN2PathProbas))]]
        ELSE [st |-> [st EXCEPT !.CNVs = cnvs], fw |-> fw]

\* lines 264-270
appendExon(a, st, fw, e) ==
    [st EXCEPT !.probsPrev = fw.probsCurrent,
               !.prevEnd = Exon(a.exons, e).end,
               !.calledExons = Append(st.calledExons, e),
               !.path = Append(st.path, fw.bestPrevState),
               !.bestPathProbas = Append(st.bestPathProbas, fw.probsCurrent),
               !.CN2PathProbas = Append(st.CN2PathProbas, fw.CN2PathProba),
               !.exonIndex = e + 1]

\* line 211
withDistFromPrevEx(a, st, e) ==
    [st EXCEPT !.distFromPrevEx = Exon(a.exons, e).start - st.prevEnd - 1]

\* lines 210-270: a called exon, once the chromosome change is dealt with
forwardExon(a, st0, e) ==
    LET st == withDistFromPrevEx(a, st0, e)
        adjusted == adjustTransMatrix(a.transMatrix, a.priors, st.distFromPrevEx, a.dmax)
        fw == forwardPass(st.probsPrev, adjusted.m, LikRow(a.likelihoods, e))
        rb == IF \A c \in States : fw.bestPrevState[c] = 2
              THEN rebaseOnCN2(a, st, fw)
              ELSE [st |-> st, fw |-> fw]
    IN  IF ~adjusted.ok THEN raise(st)
        ELSE IF rb.st.pc = "raised" THEN rb.st
        ELSE appendExon(a, rb.st, rb.fw, e)

\* loopBody with the test of the chromosome (line 195) put before the test
\* of the no-call exon (line 191)
loopBodyChromFirst(a, st) ==
    LET e == st.exonIndex
        s1 == IF Exon(a.exons, e).chrom # st.prevChrom THEN changeChrom(a, st, e) ELSE st
    IN  IF s1.pc = "raised" THEN s1
        ELSE IF LikRow(a.likelihoods, e)[0] = MinusOne THEN [s1 EXCEPT !.exonIndex = e + 1]
        ELSE forwardExon(a, s1, e)

\* lines 190-270: one iteration of the for loop, for exon st.exonIndex
loopBody(a, st) ==
    LET e == st.exonIndex
        s1 == IF Exon(a.exons, e).chrom # st.prevChrom THEN changeChrom(a, st, e) ELSE st
    IN  IF LikRow(a.likelihoods, e)[0] = MinusOne THEN [st EXCEPT !.exonIndex = e + 1]
        ELSE IF s1.pc = "raised" THEN s1
        ELSE forwardExon(a, s1, e)

\* lines 272-278: the final CNVs and the return
finalCNVs(a, st) ==
    LET b == buildCNVs(Buffers(st), argmax(Last(st.bestPathProbas)), a.sampleID)
    IN  IF anyPathToCN2NotFromCN2(st.path)
        THEN IF b.ok THEN [WithBuffers(st, b.buf) EXCEPT !.CNVs = st.CNVs \o b.CNVs, !.pc = "returned"]
             ELSE raise(WithBuffers(st, b.buf))
        ELSE [st EXCEPT !.pc = "returned"]

\* the whole call: the result record has pc = "returned" and the CNVs, or pc = "raised".
\* The locals after one iteration are computed once, then the loop goes on from them.
RECURSIVE runLoop(_, _)
runLoop(a, st) ==
    IF st.pc # "loop" THEN st
    ELSE IF st.exonIndex >= Len(a.exons) THEN finalCNVs(a, st)
    ELSE CHOOSE res \in {runLoop(a, next) : next \in {loopBody(a, st)}} : TRUE

callCNVsOneSample(a) == runLoop(a, initLocals(a))

(***************************************************************************)
(* State.  Each entry point of the code has its own part of the state:     *)
(*   args, dec  the arguments and the local variables of one call of       *)
(*              callCNVsOneSample, followed exon by exon                    *)
(*   hmm        the arguments and the local variables of applyHMM          *)
(*   lk         those of counts2likelihoods and of computeProbabilites     *)
(*   cn         those of CNCalls                                           *)
(* A part is Idle in the specifications of the other entry points.         *)
(***************************************************************************)
VARIABLES args, dec, hmm, lk, cn

vars == <<args, dec, hmm, lk, cn>>

Idle == [pc |-> "idle"]

(***************************************************************************)
(* Inputs of the decoder.                                                  *)
(***************************************************************************)
MaxExons == 3

\* likelihoods of one exon: no-call, or four non-negative numbers that sum to 1
LikWT == V4(Zero, Frac(1, 8), Frac(3, 4), Frac(1, 8))
LikDEL == V4(Zero, Frac(3, 4), Frac(1, 4), Zero)
LikDUP == V4(Zero, Zero, Frac(1, 4), Frac(3, 4))
LikHOMDEL == V4(One, Zero, Zero, Zero)
LikDELorDUP == V4(Zero, Frac(7, 8), Zero, Frac(1, 8))

LikChoices == {NoCallRow, LikWT, LikDEL, LikDUP, LikHOMDEL, LikDELorDUP}

DmaxChoices == {2}

\* where an exon lies after the previous one: right behind it (distance 0), at a
\* distance below dmax, at distance dmax, or first on the next chromosome
GapChoices == {"adjacent", "near", "far", "newChrom"}

\* the start of the first exon of a chromosome
FirstStartChoices == {0, 1}

PriorsStd == V4(Frac(1, 8), Frac(1, 8), Frac(5, 8), Frac(1, 8))
TransStd == [p \in States |-> [c \in States |-> IF p = c THEN Frac(5, 8) ELSE Frac(1, 8)]]
PriorsCN2 == V4(Zero, Zero, One, Zero)
TransIdentity == [p \in States |-> [c \in States |-> IF p = c THEN One ELSE Zero]]

HMMStd == [transMatrix |-> TransStd, priors |-> PriorsStd]
HMMAllCN2 == [transMatrix |-> TransIdentity, priors |-> PriorsCN2]

\* the exon list (chrom, start, end) given the start of the first exon and the gaps
RECURSIVE MakeExons(_, _, _, _)
MakeExons(start1, gaps, dmax, n) ==
    IF n = 1 THEN <<[chrom |-> 1, start |-> start1, end |-> start1]>>
    ELSE LET before == MakeExons(start1, gaps, dmax, n - 1)
             prev == before[n - 1]
             this == CASE gaps[n] = "adjacent" ->
                            [chrom |-> prev.chrom, start |-> prev.end + 1, end |-> prev.end + 1]
                       [] gaps[n] = "near" ->
                            [chrom |-> prev.chrom, start |-> prev.end + 2, end |-> prev.end + 2]
                       [] gaps[n] = "far" ->
                            [chrom |-> prev.chrom, start |-> prev.end + 1 + dmax,
                             end |-> prev.end + 1 + dmax]
                       [] OTHER ->
                            [chrom |-> prev.chrom + 1, start |-> start1, end |-> start1]
         IN  Append(before, this)

\* the arguments as a caller that respects the signature of line 162 binds them
DecoderArgs(liks, gaps, s1, dmax, h) ==
    [likelihoods |-> liks, sampleID |-> PyStr("s1"),
     transMatrix |-> PyMatrix(h.transMatrix), priors |-> PyVector(h.priors),
     exons |-> MakeExons(s1, gaps, dmax, Len(liks)), dmax |-> dmax]

InitDecoder(h) ==
    \E n \in 1 .. MaxExons :
        \E liks \in [1 .. n -> LikChoices], gaps \in [2 .. n -> GapChoices],
           s1 \in FirstStartChoices, dmax \in DmaxChoices :
            /\ args = DecoderArgs(liks, gaps, s1, dmax, h)
            /\ dec = initLocals(args)
            /\ hmm = Idle /\ lk = Idle /\ cn = Idle

InitViterbi == InitDecoder(HMMStd)

InitViterbiCN2 == InitDecoder(HMMAllCN2)

\* lines 191-193: the exon is no-call
SkipNoCallExon ==
    /\ dec.pc = "loop"
    /\ dec.exonIndex < Len(args.exons)
    /\ LikRow(args.likelihoods, dec.exonIndex)[0] = MinusOne
    /\ dec' = loopBody(args, dec)
    /\ UNCHANGED <<args, hmm, lk, cn>>

\* lines 195-270: the exon is called
CalledExon ==
    /\ dec.pc = "loop"
    /\ dec.exonIndex < Len(args.exons)
    /\ LikRow(args.likelihoods, dec.exonIndex)[0] # MinusOne
    /\ dec' = loopBody(args, dec)
    /\ UNCHANGED <<args, hmm, lk, cn>>

\* lines 272-278: the loop is over
FinalCNVs ==
    /\ dec.pc = "loop"
    /\ dec.exonIndex = Len(args.exons)
    /\ dec' = finalCNVs(args, dec)
    /\ UNCHANGED <<args, hmm, lk, cn>>

NextViterbi == SkipNoCallExon \/ CalledExon \/ FinalCNVs

SpecViterbi == InitViterbi /\ [][NextViterbi]_vars

\* the same decoder with all the prior mass on CN2 and the identity as base matrix
SpecViterbiCN2 == InitViterbiCN2 /\ [][NextViterbi]_vars

(***************************************************************************)
(* Properties of callCNVsOneSample and buildCNVs.                          *)
(***************************************************************************)
Returned == dec.pc = "returned"

\* the (cnState, firstExonIdx, lastExonIdx) of the CNVs of a list
Segments(CNVs) ==
    {<<CNVs[i].cnState, CNVs[i].firstExonIdx, CNVs[i].lastExonIdx>> : i \in 1 .. Len(CNVs)}

\* C4: every CNV returned by callCNVsOneSample has cnState in {0,1,3} (a run
\* of CN2 is never emitted) and firstExonIdx <= lastExonIdx.
C4_StateAndOrder ==
    Returned => \A i \in 1 .. Len(dec.CNVs) :
                    /\ dec.CNVs[i].cnState \in {0, 1, 3}
                    /\ dec.CNVs[i].firstExonIdx <= dec.CNVs[i].lastExonIdx

\* a call returned a CNV that starts right after a called exon of the same
\* chromosome which no CNV covers: a run of CN2 was walked over and not emitted
C4_Witness ==
    /\ Returned
    /\ \E i \in 1 .. Len(dec.CNVs) :
         LET before == dec.CNVs[i].firstExonIdx - 1
         IN  /\ before >= 0
             /\ LikRow(args.likelihoods, before) # NoCallRow
             /\ Exon(args.exons, before).chrom
                  = Exon(args.exons, dec.CNVs[i].firstExonIdx).chrom
             /\ \A j \in 1 .. Len(dec.CNVs) : dec.CNVs[j].lastExonIdx # before

\* C5: the exons of each chromosome being contiguous in the exon list, the
\* first and the last exon of every returned CNV are on the same chromosome.
C5_SameChrom ==
    Returned => \A i \in 1 .. Len(dec.CNVs) :
                    Exon(args.exons, dec.CNVs[i].firstExonIdx).chrom
                        = Exon(args.exons, dec.CNVs[i].lastExonIdx).chrom

\* a returned CNV ends on the last exon of a chromosome, and the first exon of
\* the next chromosome is called
C5_Witness ==
    /\ Returned
    /\ \E i \in 1 .. Len(dec.CNVs) :
         LET last == dec.CNVs[i].lastExonIdx
         IN  /\ last + 1 < Len(args.exons)
             /\ Exon(args.exons, last + 1).chrom # Exon(args.exons, last).chrom
             /\ LikRow(args.likelihoods, last + 1) # NoCallRow

\* C6: the returned list is in exon order: firstExonIdx is strictly
\* increasing along the list, and so the chromosomes come in the order of
\* the exon list.
C6_ExonOrder ==
    Returned => \A i \in 1 .. Len(dec.CNVs) - 1 :
                    /\ dec.CNVs[i].firstExonIdx < dec.CNVs[i + 1].firstExonIdx
                    /\ dec.CNVs[i].lastExonIdx < dec.CNVs[i + 1].firstExonIdx
                    /\ Exon(args.exons, dec.CNVs[i].firstExonIdx).chrom
                         <= Exon(args.exons, dec.CNVs[i + 1].firstExonIdx).chrom

\* a call returned several CNVs
C6_Witness == Returned /\ Len(dec.CNVs) >= 2

\* C7: with the priors (0,0,1,0) and the identity as base transition matrix,
\* callCNVsOneSample returns, and returns no CNV, whatever the likelihoods
\* and the exons.
C7_NoCNVWhenAllCN2 ==
    (dec.pc # "idle" /\ args.priors = PyVector(PriorsCN2)
                     /\ args.transMatrix = PyMatrix(TransIdentity))
        => dec.pc # "raised" /\ dec.CNVs = <<>>

\* such a call returned after two called exons, one of them with likelihood 0 for CN2
C7_Witness ==
    /\ Returned
    /\ args.priors = PyVector(PriorsCN2) /\ args.transMatrix = PyMatrix(TransIdentity)
    /\ \E e1, e2 \in 1 .. Len(args.likelihoods) :
         e1 # e2 /\ args.likelihoods[e1] = LikHOMDEL /\ args.likelihoods[e2] = LikDEL

(***************************************************************************)
(* The reference of C3: the most likely state paths of one chromosome,     *)
(* found by going through all the state paths of its called exons.         *)
(***************************************************************************)
Chroms(a) == {a.exons[i].chrom : i \in 1 .. Len(a.exons)}

\* the indexes of the called exons of chromosome c, in the order of the exon list
CalledOn(a, c) ==
    SelectSeq([i \in 1 .. Len(a.exons) |-> i - 1],
              LAMBDA e : Exon(a.exons, e).chrom = c /\ LikRow(a.likelihoods, e) # NoCallRow)

\* the probability of the state path p over the called exons ce, up to position i:
\* the product of the distance-adjusted transition probabilities and of the
\* likelihoods, the path root being in CN2
RECURSIVE PathProba(_, _, _, _)
PathProba(a, ce, p, i) ==
    IF i = 0 THEN One
    ELSE LET prevEnd == IF i = 1 THEN -a.dmax ELSE Exon(a.exons, ce[i - 1]).end
             d == Exon(a.exons, ce[i]).start - prevEnd - 1
             adj == adjustTransMatrix(a.transMatrix, a.priors, d, a.dmax).m
             from == IF i = 1 THEN 2 ELSE p[i - 1]
         IN  RMul(PathProba(a, ce, p, i - 1),
                  RMul(adj[from][p[i]], LikRow(a.likelihoods, ce[i])[p[i]]))

MostLikelyPaths(a, ce) ==
    LET paths == [1 .. Len(ce) -> States]
        proba == [p \in paths |-> PathProba(a, ce, p, Len(ce))]
    IN  {p \in paths : \A q \in paths : ~RGt(proba[q], proba[p])}

\* the maximal runs of one non-CN2 state in the path p, as (state, first exon, last exon)
RunsOf(ce, p) ==
    LET n == Len(ce)
        IsRun(i, j) == /\ i <= j
                       /\ p[i] # 2
                       /\ \A k \in i .. j : p[k] = p[i]
                       /\ (i = 1 \/ p[i - 1] # p[i])
                       /\ (j = n \/ p[j + 1] # p[i])
    IN  {<<p[ij[1]], ce[ij[1]], ce[ij[2]]>> :
            ij \in {x \in (1 .. n) \X (1 .. n) : IsRun(x[1], x[2])}}

\* the CNVs of a list whose first exon is on chromosome c
SegmentsOn(a, CNVs, c) == {s \in Segments(CNVs) : Exon(a.exons, s[2]).chrom = c}

\* C3: the CNVs returned by callCNVsOneSample are exactly the maximal runs
\* of non-CN2 states of a most likely state path, computed for each
\* chromosome over its called exons from a path root in CN2, each run with
\* its state and its first and last called exon.
C3_MostLikelyPathRuns ==
    Returned =>
        /\ Cardinality(Segments(dec.CNVs)) = Len(dec.CNVs)
        /\ \A c \in Chroms(args) :
              \E p \in MostLikelyPaths(args, CalledOn(args, c)) :
                  SegmentsOn(args, dec.CNVs, c) = RunsOf(CalledOn(args, c), p)

\* callCNVsOneSample returned CNVs that are the runs of a most likely path
C3_Witness == Returned /\ Len(dec.CNVs) >= 1 /\ C3_MostLikelyPathRuns

(***************************************************************************)
(* The reference of C8: the decoder without lines 246-262, which           *)
(* backtracks at the end of each chromosome only.                          *)
(***************************************************************************)
forwardExonNoRebase(a, st0, e) ==
    LET st == withDistFromPrevEx(a, st0, e)
        adjusted == adjustTransMatrix(a.transMatrix, a.priors, st.distFromPrevEx, a.dmax)
        fw == forwardPass(st.probsPrev, adjusted.m, LikRow(a.likelihoods, e))
    IN  IF ~adjusted.ok THEN raise(st) ELSE appendExon(a, st, fw, e)

loopBodyNoRebase(a, st) ==
    LET e == st.exonIndex
        s1 == IF Exon(a.exons, e).chrom # st.prevChrom THEN changeChrom(a, st, e) ELSE st
    IN  IF LikRow(a.likelihoods, e)[0] = MinusOne THEN [st EXCEPT !.exonIndex = e + 1]
        ELSE IF s1.pc = "raised" THEN s1
        ELSE forwardExonNoRebase(a, s1, e)

RECURSIVE runLoopNoRebase(_, _)
runLoopNoRebase(a, st) ==
    IF st.pc # "loop" THEN st
    ELSE IF st.exonIndex >= Len(a.exons) THEN finalCNVs(a, st)
    ELSE CHOOSE res \in {runLoopNoRebase(a, next) : next \in {loopBodyNoRebase(a, st)}} : TRUE

\* C8: the CN2-rebase does not change the result of the decoding: the CNV
\* segments (cnState, firstExonIdx, lastExonIdx) that callCNVsOneSample
\* returns are those of the decoder without rebase.
C8_RebaseChangesNothing ==
    Returned =>
        LET ref == runLoopNoRebase(args, initLocals(args))
        IN  ref.pc = "returned" /\ Segments(ref.CNVs) = Segments(dec.CNVs)

\* a call rebased on CN2 with CNVs pending, and returned what the decoder
\* without rebase returns
C8_Witness ==
    /\ Returned /\ Len(dec.CNVs) >= 1
    /\ Len(dec.calledExons) < Len(SelectSeq(args.likelihoods, LAMBDA l : l # NoCallRow))
    /\ Cardinality(Chroms(args)) = 1
    /\ C8_RebaseChangesNothing

(***************************************************************************)
(* applyHMM, src/callCNVs/callCNVs.py lines 35-58.                         *)
(***************************************************************************)
\* line 162: the parameters of callCNVsOneSample, in the order of the def
PositionalArgs(p1, p2, p3, p4, p5, p6) ==
    [likelihoods |-> p1, sampleID |-> p2, transMatrix |-> p3, priors |-> p4,
     exons |-> p5, dmax |-> p6]

\* lines 49 and 51: the call, its arguments in the order in which applyHMM writes them
argsOfCall(likelihoods, h, sampID, exons) ==
    PositionalArgs(likelihoods, PyMatrix(h.transMatrix), PyVector(h.priors),
                   PyStr(sampID), exons, h.dmax)

\* what the call of lines 49 and 51 returns or raises
callOneSample(likelihoods, h, sampID, exons) ==
    callCNVsOneSample(argsOfCall(likelihoods, h, sampID, exons))

\* lines 124-133: cnCounts is a list, and range() of a list raises TypeError at
\* line 131, whatever the CNVs
countCNVs(sampCNVs) ==
    [ok |-> FALSE,
     cnCounts |-> [c \in States |->
                     Cardinality({i \in 1 .. Len(sampCNVs) : sampCNVs[i].cnState = c})]]

\* lines 48-55: what the two calls leave, resA and resG being their outcomes;
\* a call is made only for a sample that is a key of the dictionary
extendOrRaise(h, sampID, resA, resG) ==
    LET inA == sampID \in DOMAIN h.likelihoods_A
        inG == sampID \in DOMAIN h.likelihoods_G
        failed == [h EXCEPT !.pc = "raised", !.errors = Append(h.errors, sampID)]
        afterA == IF inA THEN h.CNVs_A \o resA.CNVs ELSE h.CNVs_A
    IN  IF inA /\ resA.pc = "raised" THEN failed
        ELSE IF inG /\ resG.pc = "raised" THEN [failed EXCEPT !.CNVs_A = afterA]
        ELSE [h EXCEPT !.CNVs_A = afterA,
                       !.CNVs_G = IF inG THEN h.CNVs_G \o resG.CNVs ELSE h.CNVs_G,
                       !.decoded = h.decoded \cup {sampID},
                       !.sampIndex = h.sampIndex + 1]

\* lines 47-55: the body of the for loop for the sample at position hmm.sampIndex
decodeSample(h) ==
    LET sampID == h.samples[h.sampIndex + 1]
    IN  extendOrRaise(h, sampID,
                      callOneSample(h.likelihoods_A[sampID], h, sampID, h.autosomeExons),
                      callOneSample(h.likelihoods_G[sampID], h, sampID, h.gonosomeExons))

\* lines 56-58
countAndReturn(h) ==
    IF countCNVs(h.CNVs_A).ok /\ countCNVs(h.CNVs_G).ok
    THEN [h EXCEPT !.pc = "returned"]
    ELSE [h EXCEPT !.pc = "raised"]

(***************************************************************************)
(* Inputs of applyHMM.                                                     *)
(***************************************************************************)
MaxSamples == 3

SampleIDs == <<"s1", "s2", "s3", "s4">>

AutosomeExons == <<[chrom |-> 1, start |-> 1, end |-> 1], [chrom |-> 1, start |-> 2, end |-> 2]>>
GonosomeExons == <<[chrom |-> 23, start |-> 1, end |-> 1]>>

\* the likelihoods of a sample on the autosomes and on the gonosomes; "absent":
\* the sample is not a key of the dictionary
SliceChoices_A == {"absent", <<NoCallRow, NoCallRow>>, <<LikWT, LikDEL>>, <<LikHOMDEL, LikWT>>}
SliceChoices_G == {"absent", <<NoCallRow>>, <<LikWT>>}

\* the dictionary sampleID -> likelihoods made of the choices that are not "absent"
SliceDict(n, choice) ==
    LET present == {i \in 1 .. n : choice[i] # "absent"}
        key2pos == [k \in {SampleIDs[i] : i \in present} |->
                       CHOOSE i \in present : SampleIDs[i] = k]
    IN  [k \in DOMAIN key2pos |-> choice[key2pos[k]]]

InitHMM ==
    \E n \in 1 .. MaxSamples :
        \E cA \in [1 .. n -> SliceChoices_A], cG \in [1 .. n -> SliceChoices_G] :
            /\ hmm = [pc |-> "samples", samples |-> SubSeq(SampleIDs, 1, n),
                      autosomeExons |-> AutosomeExons, gonosomeExons |-> GonosomeExons,
                      likelihoods_A |-> SliceDict(n, cA), likelihoods_G |-> SliceDict(n, cG),
                      priors |-> PriorsStd, transMatrix |-> TransStd, dmax |-> 2,
                      sampIndex |-> 0, CNVs_A |-> <<>>, CNVs_G |-> <<>>,
                      errors |-> <<>>, decoded |-> {}]
            /\ args = Idle /\ dec = Idle /\ lk = Idle /\ cn = Idle

\* lines 46-55: one iteration of the loop over the samples
DecodeSample ==
    /\ hmm.pc = "samples"
    /\ hmm.sampIndex < Len(hmm.samples)
    /\ hmm' = decodeSample(hmm)
    /\ UNCHANGED <<args, dec, lk, cn>>

\* lines 56-58: the loop is over
CountAndReturn ==
    /\ hmm.pc = "samples"
    /\ hmm.sampIndex = Len(hmm.samples)
    /\ hmm' = countAndReturn(hmm)
    /\ UNCHANGED <<args, dec, lk, cn>>

NextHMM == DecodeSample \/ CountAndReturn

SpecHMM == InitHMM /\ [][NextHMM]_vars

\* C9: when the decoding of a sample fails inside callCNVsOneSample,
\* applyHMM reports it and still decodes all the remaining samples and
\* returns: once applyHMM is over with a failure reported, every sample has
\* been through the loop and the CNV lists have been returned.
C9_FailureStaysWithSample ==
    (hmm.pc \in {"returned", "raised"} /\ hmm.errors # <<>>)
        => /\ hmm.pc = "returned"
           /\ hmm.sampIndex = Len(hmm.samples)
           /\ \A i \in 1 .. Len(hmm.samples) :
                 hmm.samples[i] \in hmm.decoded \/ hmm.samples[i] = hmm.errors[1]

\* applyHMM is over after the decoding of a sample that is not the last one failed
C9_Witness ==
    /\ hmm.pc = "raised"
    /\ hmm.errors # <<>>
    /\ hmm.sampIndex + 1 < Len(hmm.samples)

(***************************************************************************)
(* Emission side.  More arithmetic on numbers, and the densities of        *)
(* scipy.stats.  A density is modelled by a step function of the           *)
(* standardised argument: it keeps what the code depends on, the sign, the *)
(* order of magnitude, the exact zeros outside the support, the underflow  *)
(* to 0.0 far in the tail (exp(-745) is the smallest positive double) and  *)
(* scipy's nan for a scale that is not positive.                           *)
(***************************************************************************)
RNeg(a) == <<-a[1], a[2]>>

RAbs(a) == <<Abs(a[1]), a[2]>>

\* IEEE sum: nan + x = nan, inf + -inf = nan
RPlus(a, b) ==
    IF IsNaN(a) \/ IsNaN(b) THEN NaN
    ELSE IF a[2] = 0 /\ b[2] = 0 THEN (IF a = b THEN a ELSE NaN)
    ELSE IF a[2] = 0 THEN a
    ELSE IF b[2] = 0 THEN b
    ELSE RAdd(a, b)

RSub(a, b) == RPlus(a, RNeg(b))

RLt(a, b) == RGt(b, a)

RLe(a, b) == RGe(b, a)

Int2R(n) == <<n, 1>>

\* exp(-z^2 / 2) / sqrt(2 pi) for z >= 0
NormStd(z) ==
    IF RGe(z, Int2R(39)) THEN Zero
    ELSE IF RGe(z, Int2R(2)) THEN Frac(1, 256)
    ELSE IF RGe(z, One) THEN Frac(1, 16)
    ELSE Frac(1, 4)

\* exp(-y) for y >= 0
ExpStd(y) ==
    IF RGe(y, Int2R(746)) THEN Zero
    ELSE IF RGe(y, Int2R(4)) THEN Frac(1, 256)
    ELSE IF RGe(y, One) THEN Frac(1, 16)
    ELSE Frac(1, 2)

\* y^7 exp(-y) / 7! for y >= 0, the standard gamma density of shape 8
Gamma8Std(y) ==
    IF RGe(y, Int2R(800)) \/ y = Zero THEN Zero
    ELSE IF RGe(y, Int2R(14)) THEN Frac(1, 256)
    ELSE IF RGe(y, Int2R(2)) THEN Frac(1, 16)
    ELSE Frac(1, 256)

\* 1 - exp(-y) for y >= 0; it is 1.0 in doubles from y = 37 on
ExpCdfStd(y) ==
    IF RGe(y, Int2R(37)) THEN One
    ELSE IF RGe(y, Int2R(3)) THEN Frac(63, 64)
    ELSE IF RGe(y, One) THEN Frac(7, 8)
    ELSE IF RGt(y, Zero) THEN Frac(1, 2)
    ELSE Zero

\* the distribution function of the standard gamma of shape 8
Gamma8CdfStd(y) ==
    IF RGe(y, Int2R(60)) THEN One
    ELSE IF RGe(y, Int2R(13)) THEN Frac(63, 64)
    ELSE IF RGe(y, Int2R(8)) THEN Frac(7, 8)
    ELSE IF RGe(y, Int2R(4)) THEN Frac(1, 2)
    ELSE IF RGt(y, Zero) THEN Frac(1, 16)
    ELSE Zero

\* scipy.stats.norm.pdf(x, loc, scale)
NormPdf(x, loc, scale) ==
    IF ~RGt(scale, Zero) \/ ~IsFinite(loc) THEN NaN
    ELSE RDiv(NormStd(RDiv(RAbs(RSub(x, loc)), scale)), scale)

\* scipy.stats.expon.pdf(x, loc, scale)
ExponPdf(x, loc, scale) ==
    IF ~RGt(scale, Zero) \/ ~IsFinite(loc) THEN NaN
    ELSE IF RLt(x, loc) THEN Zero
    ELSE RDiv(ExpStd(RDiv(RSub(x, loc), scale)), scale)

\* scipy.stats.gamma.pdf(x, a, loc, scale); the shapes in use are 1 (the
\* exponential) and 8
GammaPdf(x, a, loc, scale) ==
    IF ~RGt(scale, Zero) \/ ~RGt(a, Zero) \/ ~IsFinite(loc) THEN NaN
    ELSE IF RLt(x, loc) THEN Zero
    ELSE IF a = One THEN RDiv(ExpStd(RDiv(RSub(x, loc), scale)), scale)
    ELSE RDiv(Gamma8Std(RDiv(RSub(x, loc), scale)), scale)

\* scipy.stats.gamma.cdf(x, a, loc, scale)
GammaCdf(x, a, loc, scale) ==
    IF ~RGt(scale, Zero) \/ ~RGt(a, Zero) \/ ~IsFinite(loc) THEN NaN
    ELSE IF RLt(x, loc) THEN Zero
    ELSE IF a = One THEN ExpCdfStd(RDiv(RSub(x, loc), scale))
    ELSE Gamma8CdfStd(RDiv(RSub(x, loc), scale))

\* numpy.log10(v) for v >= 1, in steps
Log10(v) ==
    IF ~RGe(v, One) THEN NaN
    ELSE IF v = One THEN Zero
    ELSE IF RLt(v, Int2R(2)) THEN Frac(1, 4)
    ELSE IF RLt(v, Int2R(4)) THEN Frac(1, 2)
    ELSE IF RLt(v, Int2R(32)) THEN One
    ELSE Int2R(2)

(***************************************************************************)
(* likelihoods.py, getDistributionObjects and counts2likelihoods.          *)
(* A row of exMetrics[clusterID] is a record [loc, scale, filterStatus];   *)
(* the code fills the exons whose filterStatus is 4 and skips the others.  *)
(***************************************************************************)
\* lines 141-165: the four densities evaluated at x
getDistributionObjects(exp_loc, exp_scale, gauss_loc, gauss_scale, x) ==
    V4(ExponPdf(x, exp_loc, exp_scale),
       NormPdf(x, RMul(gauss_loc, Frac(1, 2)), gauss_scale),
       NormPdf(x, gauss_loc, gauss_scale),
       GammaPdf(x, Int2R(8), RPlus(gauss_loc, gauss_scale),
                Log10(RPlus(RPlus(gauss_loc, gauss_scale), One))))

\* line 92: one row of -1 per exon of exonsFPM
allocateLikelihoods(sampsIDs, numExons) ==
    [samp \in {sampsIDs[i] : i \in 1 .. Len(sampsIDs)} |-> [e \in 1 .. numExons |-> NoCallRow]]

\* lines 97-110 for one exon: every sample of the cluster receives the four
\* densities of its own FPM, column samp2Index[samp] of the exon's row
fillExon(l, exonIndex) ==
    LET m == l.exMetrics[l.clusterID][exonIndex + 1]
    IN  [samp \in DOMAIN l.likelihoods |->
            [l.likelihoods[samp] EXCEPT ![exonIndex + 1] =
                getDistributionObjects(l.exp_loc, l.exp_scale, m.loc, m.scale,
                                       l.exonsFPM[exonIndex + 1][l.samp2Index[samp] + 1])]]

(***************************************************************************)
(* copyNumbersCalls.py, computeProbabilites (lines 545-602).               *)
(***************************************************************************)
\* lines 565-573: the four densities before the priors
probability_densities(sample_data, params, gamma_threshold, mean, standard_deviation) ==
    V4(IF RLe(sample_data, RMul(mean, Frac(1, 2)))
       THEN RMul(RInv(RSub(One, GammaCdf(gamma_threshold, params[1], params[2], params[3]))),
                 GammaPdf(sample_data, params[1], params[2], params[3]))
       ELSE Zero,
       NormPdf(sample_data, RMul(mean, Frac(1, 2)), standard_deviation),
       NormPdf(sample_data, mean, standard_deviation),
       NormPdf(sample_data, RMul(mean, Frac(3, 2)), standard_deviation))

\* line 580: numpy divides element by element, 0/0 is nan and no exception
normalise(q) ==
    [s \in States |-> RDiv(q[s], RPlus(RPlus(q[0], q[1]), RPlus(q[2], q[3])))]

\* lines 577-602
withPriors(densities, prior_probabilities) ==
    normalise([s \in States |-> RMul(densities[s], prior_probabilities[s])])

computeProbabilites(sample_data, params, gamma_threshold, prior_probabilities, robustGaussianParams) ==
    withPriors(probability_densities(sample_data, params, gamma_threshold,
                                     robustGaussianParams[1], robustGaussianParams[2]),
               prior_probabilities)

(***************************************************************************)
(* Inputs of the two likelihood evaluators.                                *)
(***************************************************************************)
MaxLikExons == 2

\* columns of exonsFPM: samp2Index maps the sample IDs to 0 .. 2
Samp2Index == [s \in {"s1", "s2", "s3"} |-> CASE s = "s1" -> 0 [] s = "s2" -> 1 [] s = "s3" -> 2]

\* the samples of the cluster, in the order of clust2samps
ClusterSampsChoices == {<<"s2">>, <<"s3", "s1">>}

FPMChoices == {Zero, One, Int2R(3)}

\* rows [loc, scale, filterStatus] of exMetrics: two exons that passed the
\* filters (status 4) and two that did not
MetricsChoices ==
    {[loc |-> One, scale |-> Frac(1, 4), filterStatus |-> 4],
     [loc |-> Int2R(2), scale |-> Frac(1, 2), filterStatus |-> 4],
     [loc |-> Zero, scale |-> Zero, filterStatus |-> 0],
     [loc |-> One, scale |-> Frac(1, 4), filterStatus |-> 3]}

\* the exponential fitted on intergenic counts: loc 0, scale 1 / lambda
ExpLoc == Zero
ExpScale == Frac(1, 8)

\* counts2likelihoods at line 94, after the set-up of lines 79-92
InitCounts2Likelihoods ==
    \E n \in 1 .. MaxLikExons :
    \E fpm \in [1 .. n -> [1 .. 3 -> FPMChoices]] :
    \E metrics \in [1 .. n -> MetricsChoices] :
    \E samps \in ClusterSampsChoices :
        lk = [fn |-> "counts2likelihoods", pc |-> "loop",
              clusterID |-> "c1", samp2Index |-> Samp2Index, exonsFPM |-> fpm,
              clust2samps |-> [c \in {"c1"} |-> samps],
              exp_loc |-> ExpLoc, exp_scale |-> ExpScale,
              exMetrics |-> [c \in {"c1"} |-> metrics],
              exonIndex |-> 0,
              likelihoods |-> allocateLikelihoods(samps, n)]

\* gamma of the uncovered exons [shape, loc, scale]; thresholds below its
\* 95% quantile, as fitGammaDistribution returns them
GammaParamsChoices == {<<One, Zero, Frac(1, 8)>>}
GammaThresholdChoices == {Frac(1, 16), Frac(1, 4)}
SampleDataChoices == {Zero, Frac(1, 2), One, Frac(3, 2), Int2R(4)}
RobustGaussianChoices == {<<One, Frac(1, 20)>>, <<One, Frac(1, 4)>>, <<Int2R(4), Frac(1, 2)>>}

\* computeProbabilites called on one FPM value
InitComputeProbabilites ==
    \E x \in SampleDataChoices, p \in GammaParamsChoices, t \in GammaThresholdChoices,
       rg \in RobustGaussianChoices :
        lk = [fn |-> "computeProbabilites", pc |-> "called",
              sample_data |-> x, params |-> p, gamma_threshold |-> t,
              prior_probabilities |-> PriorsStd, robustGaussianParams |-> rg]

InitLikelihoods ==
    /\ InitCounts2Likelihoods \/ InitComputeProbabilites
    /\ args = Idle /\ dec = Idle /\ hmm = Idle /\ cn = Idle

LikLoop == lk.pc = "loop" /\ lk.fn = "counts2likelihoods"

\* lines 94-96: an exon whose filterStatus is not 4 is left at -1
LikelihoodsSkipExon ==
    /\ LikLoop
    /\ lk.exonIndex < Len(lk.exMetrics[lk.clusterID])
    /\ lk.exMetrics[lk.clusterID][lk.exonIndex + 1].filterStatus # 4
    /\ lk' = [lk EXCEPT !.exonIndex = lk.exonIndex + 1]
    /\ UNCHANGED <<args, dec, hmm, cn>>

\* lines 94-110: an exon of filterStatus 4
LikelihoodsFillExon ==
    /\ LikLoop
    /\ lk.exonIndex < Len(lk.exMetrics[lk.clusterID])
    /\ lk.exMetrics[lk.clusterID][lk.exonIndex + 1].filterStatus = 4
    /\ lk' = [lk EXCEPT !.exonIndex = lk.exonIndex + 1,
                        !.likelihoods = fillExon(lk, lk.exonIndex)]
    /\ UNCHANGED <<args, dec, hmm, cn>>

\* line 112
LikelihoodsReturn ==
    /\ LikLoop
    /\ lk.exonIndex >= Len(lk.exMetrics[lk.clusterID])
    /\ lk' = [lk EXCEPT !.pc = "returned"]
    /\ UNCHANGED <<args, dec, hmm, cn>>

ComputeProbabilites ==
    /\ lk.pc = "called" /\ lk.fn = "computeProbabilites"
    /\ lk' = [fn |-> "computeProbabilites", pc |-> "returned",
              sample_data |-> lk.sample_data, robustGaussianParams |-> lk.robustGaussianParams,
              params |-> lk.params, gamma_threshold |-> lk.gamma_threshold,
              prior_probabilities |-> lk.prior_probabilities,
              probNorm |-> computeProbabilites(lk.sample_data, lk.params, lk.gamma_threshold,
                                               lk.prior_probabilities, lk.robustGaussianParams)]
    /\ UNCHANGED <<args, dec, hmm, cn>>

NextLikelihoods ==
    \/ LikelihoodsSkipExon
    \/ LikelihoodsFillExon
    \/ LikelihoodsReturn
    \/ ComputeProbabilites

SpecLikelihoods == InitLikelihoods /\ [][NextLikelihoods]_vars

RSum4(row) == RPlus(RPlus(row[0], row[1]), RPlus(row[2], row[3]))

\* a slice of four entries is all -1, or non-negative numbers of sum 1
SentinelOrDistribution(row) ==
    \/ row = NoCallRow
    \/ /\ \A s \in States : IsFinite(row[s]) /\ RGe(row[s], Zero)
       /\ RSum4(row) = One

\* C1: once the likelihoods are filled, the four entries of every (exon,
\* sample) are all -1 or all non-negative and sum to 1: this for the rows
\* counts2likelihoods returns and for the row computeProbabilites returns.
C1_SentinelOrNormalised ==
    lk.pc = "returned" =>
        IF lk.fn = "counts2likelihoods"
        THEN \A samp \in DOMAIN lk.likelihoods : \A e \in DOMAIN lk.likelihoods[samp] :
                SentinelOrDistribution(lk.likelihoods[samp][e])
        ELSE SentinelOrDistribution(lk.probNorm)

\* counts2likelihoods has returned a filled row that does not sum to 1
C1_Witness ==
    /\ lk.pc = "returned" /\ lk.fn = "counts2likelihoods"
    /\ \E samp \in DOMAIN lk.likelihoods : \E e \in DOMAIN lk.likelihoods[samp] :
        /\ lk.likelihoods[samp][e] # NoCallRow
        /\ \A s \in States : IsFinite(lk.likelihoods[samp][e][s])
        /\ RSum4(lk.likelihoods[samp][e]) # One

(***************************************************************************)
(* copyNumbersCalls.py, the exon filters.  X is a sequence of FPM values.  *)
(* The standard deviation is a square root: the model carries its square   *)
(* and compares squares, which decides the same tests because the standard *)
(* deviation is never negative.                                            *)
(***************************************************************************)
RSq(a) == RMul(a, a)

RECURSIVE RSumSeq(_)
RSumSeq(X) == IF X = <<>> THEN Zero ELSE RPlus(Head(X), RSumSeq(Tail(X)))

\* numpy.average / numpy.mean of a non-empty sequence
average(X) == RDiv(RSumSeq(X), Int2R(Len(X)))

square(X) == [i \in 1 .. Len(X) |-> RSq(X[i])]

\* the population variance, the square of numpy.std
variance(X) == RSub(average(square(X)), RSq(average(X)))

\* the position in X of its smallest element
RECURSIVE argminFrom(_, _, _)
argminFrom(X, i, best) ==
    IF i > Len(X) THEN best
    ELSE argminFrom(X, i + 1, IF RLt(X[i], X[best]) THEN i ELSE best)

RECURSIVE sort(_)
sort(X) ==
    IF X = <<>> THEN <<>>
    ELSE LET k == argminFrom(X, 2, 1)
         IN  <<X[k]>> \o sort([i \in 1 .. Len(X) - 1 |-> IF i < k THEN X[i] ELSE X[i + 1]])

\* numpy.median of a non-empty sequence given sorted
medianOfSorted(S) ==
    IF Len(S) % 2 = 1 THEN S[(Len(S) + 1) \div 2]
    ELSE RMul(RPlus(S[Len(S) \div 2], S[Len(S) \div 2 + 1]), Frac(1, 2))

median(X) == medianOfSorted(sort(X))

\* lines 508-510 with x = 2: the square of truncated_integral_and_sigma(2),
\* 1 - 2 n / e = 0.77374..., taken as 24/31
TruncatedSigmaSq == Frac(24, 31)

\* the loop of fitRobustGaussian may not take more turns than this
MaxFitIterations == 6

\* line 465 with bandwidth 2: mu - 2 sigma < x < mu + 2 sigma
inWindow(x, mu, sigmaSq) == RLt(RSq(RSub(x, mu)), RMul(Int2R(4), sigmaSq))

\* lines 469-471 on the values of the window: the new mu and sigma^2
windowFit(XW) ==
    [ok |-> TRUE, mu |-> average(XW),
     sigmaSq |-> RDiv(variance(XW), TruncatedSigmaSq)]

\* lines 457-477.  eps is 1e-5: the loop is taken to stop when a turn
\* changes neither mu nor sigma, which on the inputs used here it does as
\* soon as the window is the same twice.
RECURSIVE fitLoop(_, _, _, _)
fitLoop(X, mu, sigmaSq, turns) ==
    LET InW(x) == inWindow(x, mu, sigmaSq)
    IN  IF SelectSeq(X, InW) = <<>> THEN [ok |-> FALSE, error |-> "cannot fit"]
        ELSE IF turns = 0 THEN [ok |-> FALSE, error |-> "no convergence"]
        ELSE CHOOSE res \in {IF next.mu = mu /\ next.sigmaSq = sigmaSq THEN next
                             ELSE fitLoop(X, next.mu, next.sigmaSq, turns - 1)
                             : next \in {windowFit(SelectSeq(X, InW))}} : TRUE

\* lines 444-477: mu starts at the median, sigma at std / 3
fitRobustGaussian(X) == fitLoop(X, median(X), RDiv(variance(X), Int2R(9)), MaxFitIterations)

\* lines 523-528: weight < 0.5
computeWeightBelowHalf(fpm_in_exon, mean, sdSq) ==
    LET In(x) == inWindow(x, mean, sdSq)
    IN  2 * Len(SelectSeq(fpm_in_exon, In)) < Len(fpm_in_exon)

\* the distance to the threshold taken without its sign
zScoreBelow3Unsigned(meanRG, sdSq, uncovExonThreshold) ==
    RLt(RSq(RSub(meanRG, uncovExonThreshold)), RMul(Int2R(9), sdSq))

\* lines 410-414: (meanRG - uncovExonThreshold) / stdevRG < 3, stdevRG > 0
zScoreBelow3(meanRG, sdSq, uncovExonThreshold) ==
    \/ RLe(meanRG, uncovExonThreshold)
    \/ RLt(RSq(RSub(meanRG, uncovExonThreshold)), RMul(Int2R(9), sdSq))

\* lines 407-408: a standard deviation 0 is replaced by meanRG / 20
syntheticSd(meanRG, sdSq) == IF sdSq = Zero THEN RDiv(RSq(meanRG), Int2R(400)) ELSE sdSq

\* lines 400-428, given the fitted Gaussian
filterFitted(exonFPM, uncovExonThreshold, meanRG, sdSq) ==
    IF meanRG = Zero THEN [filter |-> "meanRG=0"]
    ELSE IF zScoreBelow3(meanRG, sdSq, uncovExonThreshold) THEN [filter |-> "pseudoZscore<3"]
    ELSE IF computeWeightBelowHalf(exonFPM, meanRG, sdSq) THEN [filter |-> "sampleContribution2RG<0.5"]
    ELSE [filter |-> "none", meanRG |-> meanRG, sdSq |-> sdSq]

\* lines 382-389: "cannot fit" is caught and counted, any other exception
\* is raised again
filterOnFit(exonFPM, uncovExonThreshold, fit) ==
    IF ~fit.ok THEN (IF fit.error = "cannot fit" THEN [filter |-> "cannotFitRG"]
                     ELSE [filter |-> "raise", error |-> fit.error])
    ELSE filterFitted(exonFPM, uncovExonThreshold, fit.mu, syntheticSd(fit.mu, fit.sigmaSq))

\* the fit attempted before the median is looked at
exonFilteringFitFirst(exonFPM, uncovExonThreshold) ==
    filterOnFit(exonFPM, uncovExonThreshold, fitRobustGaussian(exonFPM))

\* lines 361-428.  The result names the counter that was incremented, or
\* "none" with the parameters returned for a callable exon.
exonFiltering(exonFPM, uncovExonThreshold) ==
    IF median(exonFPM) = Zero THEN [filter |-> "med=0"]
    ELSE filterOnFit(exonFPM, uncovExonThreshold, fitRobustGaussian(exonFPM))

(***************************************************************************)
(* copyNumbersCalls.py, fitGammaDistribution (lines 259-294).              *)
(* clusterSamps.smoothing is not among the source files: the two functions *)
(* called at lines 268 and 273 are modelled from the specification,        *)
(* section 4.A, a kernel density estimate of the exon means on a grid and  *)
(* its first local minimum from the left.  The grid is 0, 0.5, ..., 10     *)
(* (the code's comment says every 0.1), the kernel the step function       *)
(* NormStd, the bandwidth 0.5.                                             *)
(* scipy.stats.gamma.fit is a numerical optimiser: what it answers is an   *)
(* input of the model, an estimate [shape, loc, scale] or an exception.    *)
(***************************************************************************)
Bins == 0 .. 20

binEdges(b) == Frac(b, 2)

KdeBandwidth == Frac(1, 2)

RECURSIVE kernelSum(_, _)
kernelSum(x, data) ==
    IF data = <<>> THEN Zero
    ELSE RPlus(NormStd(RDiv(RAbs(RSub(x, Head(data))), KdeBandwidth)), kernelSum(x, Tail(data)))

smoothingCoverageProfile(meanCountByExons) ==
    [b \in Bins |-> kernelSum(binEdges(b), meanCountByExons)]

\* the bins where the density stops decreasing and starts to increase
localMins(density) ==
    {i \in Bins : /\ i + 1 \in Bins
                  /\ RLt(density[i], density[i + 1])
                  /\ \E j \in Bins : j < i /\ RGt(density[j], density[i])}

findLocalMin(density) ==
    IF localMins(density) = {} THEN [ok |-> FALSE]
    ELSE [ok |-> TRUE, minIndex |-> CHOOSE i \in localMins(density) : \A j \in localMins(density) : i <= j]

\* line 262
meanCountByExons(clusterCounting) ==
    [e \in 1 .. Len(clusterCounting) |-> average(clusterCounting[e])]

\* lines 275-277
countsExonsNotCovered(means, edge) ==
    LET Low(x) == RLe(x, edge) IN sort(SelectSeq(means, Low))

fitFailure(reason, type, line) ==
    [ok |-> FALSE, reason |-> reason, error |-> [type |-> type, line |-> line]]

\* lines 283-294: the largest of the sorted values whose cdf is below 0.95;
\* indexing the empty result of numpy.where raises IndexError
thresholdOf(data, gammaParams) ==
    LET below == {i \in 1 .. Len(data) :
                    RLt(GammaCdf(data[i], gammaParams[1], gammaParams[2], gammaParams[3]), Frac(19, 20))}
    IN  IF below = {} THEN fitFailure("NO_UNCOV_THRESHOLD", "IndexError", 286)
        ELSE [ok |-> TRUE, gammaParams |-> gammaParams,
              uncovExonThreshold |-> data[CHOOSE i \in below : \A j \in below : j <= i]]

\* lines 273-294, given the result of findLocalMin and the answer of
\* gamma.fit; nothing in the function catches an exception
fitLowTail(means, localMin, fit) ==
    IF ~localMin.ok THEN fitFailure("NO_LOCAL_MIN", "Exception", 273)
    ELSE IF ~fit.ok THEN fitFailure("GAMMA_FIT_FAIL", "Exception", 280)
    ELSE thresholdOf(countsExonsNotCovered(means, binEdges(localMin.minIndex)), fit.params)

fitGammaDistribution(clusterCounting, fit) ==
    fitLowTail(meanCountByExons(clusterCounting),
               findLocalMin(smoothingCoverageProfile(meanCountByExons(clusterCounting))),
               fit)

(***************************************************************************)
(* copyNumbersCalls.py, extractClusterInfos (lines 217-238).  Sample and   *)
(* exon indexes are 0-based as in the code.  sampleIndex2Process is the    *)
(* list object clusts2Samps[clustID] itself, so that extending it extends  *)
(* the entry of the dictionary: the dictionary after the call is part of   *)
(* the result.                                                             *)
(***************************************************************************)
RECURSIVE extendWithControls(_, _, _, _)
extendWithControls(clusts2Samps, clustID, controls, i) ==
    IF i > Len(controls) THEN clusts2Samps
    ELSE extendWithControls([clusts2Samps EXCEPT ![clustID] = @ \o clusts2Samps[controls[i]]],
                            clustID, controls, i + 1)

\* numpy.flatnonzero(mask), or numpy.where(~mask)[0]
RECURSIVE indexesWhere(_, _, _)
indexesWhere(mask, value, i) ==
    IF i > Len(mask) THEN <<>>
    ELSE (IF mask[i] = value THEN <<i - 1>> ELSE <<>>) \o indexesWhere(mask, value, i + 1)

extractClusterInfos(clustID, clusts2Samps, clusts2Ctrls, sex2Clust, mask) ==
    LET after == IF clustID \in DOMAIN clusts2Ctrls
                 THEN extendWithControls(clusts2Samps, clustID, clusts2Ctrls[clustID], 1)
                 ELSE clusts2Samps
    IN  [sampleIndex2Process |-> after[clustID],
         exonsIndex2Process |-> IF DOMAIN sex2Clust = {}
                                THEN [i \in 1 .. Len(mask) |-> i - 1]
                                ELSE indexesWhere(mask, clustID \in sex2Clust.A, 1),
         clusts2Samps |-> after]

(***************************************************************************)
(* copyNumbersCalls.py, CNCalls (lines 64-148).                            *)
(*                                                                         *)
(* Line 65 raises for every input: allocateEmissionArray passes -1 inside  *)
(* the shape tuple and gives numpy.full no fill value (line 201).  Line 88 *)
(* raises as well, numpy.arange is applied to a row of countsNorm.  No     *)
(* execution of CNCalls therefore reaches the body of the cluster loop.    *)
(* To examine that body the model starts it, for the first cluster, at     *)
(* line 98 in the state that lines 63-92 document:                         *)
(*   emissionArray     NbExons x NbSOIs slices of four, all -1             *)
(*   sampleIndex2Process, exonsIndex2Process, clusts2Samps                  *)
(*                     as extractClusterInfos leaves them (line 85)        *)
(*   clusterCounting   countsNorm at those rows and those columns, picked  *)
(*                     by boolean masks and so in ascending order          *)
(* The entry of CNCalls itself, pc = "line65", is an initial state too.    *)
(* Lines 130-142 are not reached from line 98 either: line 128 raises.     *)
(* They are started, for the first exon of the first cluster when it is    *)
(* callable, at line 130 with the locals that lines 98-126 leave.          *)
(*                                                                         *)
(* outcome records, for each exon of the cluster that exonFiltering has    *)
(* judged, the counter it incremented or "none" for a callable exon.       *)
(***************************************************************************)
MaxClusterExons == 3

Unbound == "unbound"

NbSOIs == 3

\* rows of countsNorm, the FPM of one exon for the SOIs 0, 1, 2
CountsRowChoices ==
    {<<Zero, Zero, Zero>>,
     <<Zero, Zero, Int2R(3)>>,
     <<Int2R(3), Int2R(3), Int2R(3)>>,
     <<Zero, Int2R(3), Int2R(4)>>,
     <<Int2R(3), Int2R(4), Int2R(12)>>,
     <<Frac(1, 4), Frac(1, 2), Int2R(12)>>}

\* one cluster of three samples, or a cluster of two whose control cluster
\* holds the third, the samples listed in ascending order or not; clusters
\* is the order of the keys of clusts2Samps
ClusterChoices ==
    {[clusters |-> <<"c1">>,
      clusts2Samps |-> [c \in {"c1"} |-> <<0, 1, 2>>],
      clusts2Ctrls |-> <<>>,
      sex2Clust |-> [A |-> {"c1"}, G |-> {}]],
     [clusters |-> <<"c1", "c2">>,
      clusts2Samps |-> [c \in {"c1", "c2"} |-> IF c = "c1" THEN <<0, 1>> ELSE <<2>>],
      clusts2Ctrls |-> [c \in {"c1"} |-> <<"c2">>],
      sex2Clust |-> [A |-> {"c1", "c2"}, G |-> {}]],
     [clusters |-> <<"c1", "c2">>,
      clusts2Samps |-> [c \in {"c1", "c2"} |-> IF c = "c1" THEN <<2, 0>> ELSE <<1>>],
      clusts2Ctrls |-> [c \in {"c1"} |-> <<"c2">>],
      sex2Clust |-> [A |-> {"c1", "c2"}, G |-> {}]]}

\* what scipy.stats.gamma.fit may answer
GammaFitOutcomes ==
    {[ok |-> FALSE],
     [ok |-> TRUE, params |-> <<One, Zero, Frac(1, 8)>>],
     [ok |-> TRUE, params |-> <<One, Zero, One>>]}

FilterNames == {"med=0", "cannotFitRG", "meanRG=0", "pseudoZscore<3", "sampleContribution2RG<0.5"}

\* line 76 with all exons on autosomes
AutosomeMask(n) == [i \in 1 .. n |-> TRUE]

\* the indexes that a boolean mask np.isin(np.arange(n), list) selects: those
\* of 0 .. n-1 that are in the list, in ascending order
maskedIndexes(list, n) ==
    SelectSeq([k \in 1 .. n |-> k - 1], LAMBDA v : \E j \in 1 .. Len(list) : list[j] = v)

\* countsNorm[np.ix_(rows, columns)]
submatrix(countsNorm, rows, columns) ==
    [i \in 1 .. Len(rows) |-> [j \in 1 .. Len(columns) |-> countsNorm[rows[i] + 1][columns[j] + 1]]]

\* the arguments of CNCalls, no local assigned yet
CNCallsEntry(countsNorm, c) ==
    [pc |-> "line65", error |-> Unbound, fitFailure |-> "none",
     countsNorm |-> countsNorm, clusters |-> c.clusters, clustIndex |-> 0,
     clusts2Samps |-> c.clusts2Samps, clusts2Ctrls |-> c.clusts2Ctrls,
     sex2Clust |-> c.sex2Clust, maskAutosome_Gonosome |-> Unbound,
     sampleIndex2Process |-> Unbound, exonsIndex2Process |-> Unbound,
     clusterCounting |-> Unbound, filterCounters |-> Unbound,
     gammaParameters |-> Unbound, uncovExonThreshold |-> Unbound,
     exon |-> Unbound, emissionArray |-> Unbound, outcome |-> <<>>,
     priors |-> PriorsStd, robustGaussianParams |-> Unbound]

\* line 98 in the first turn of the cluster loop
inFirstCluster(entry, infos) ==
    [entry EXCEPT !.pc = "line98", !.clustIndex = 1,
                  !.maskAutosome_Gonosome = AutosomeMask(Len(entry.countsNorm)),
                  !.clusts2Samps = infos.clusts2Samps,
                  !.sampleIndex2Process = infos.sampleIndex2Process,
                  !.exonsIndex2Process = infos.exonsIndex2Process,
                  !.clusterCounting =
                      submatrix(entry.countsNorm,
                                maskedIndexes(infos.exonsIndex2Process, Len(entry.countsNorm)),
                                maskedIndexes(infos.sampleIndex2Process, NbSOIs)),
                  !.emissionArray = [e \in 1 .. Len(entry.countsNorm) |->
                                        [s \in 1 .. NbSOIs |-> NoCallRow]]]

\* lines 98-106: the call of fitGammaDistribution is not inside a try, an
\* exception raised in it leaves CNCalls
afterFit(c, res) ==
    IF res.ok
    THEN [c EXCEPT !.pc = "line111", !.exon = 0,
                   !.filterCounters = [f \in FilterNames |-> 0],
                   !.gammaParameters = res.gammaParams,
                   !.uncovExonThreshold = res.uncovExonThreshold]
    ELSE [c EXCEPT !.pc = "raised", !.error = res.error, !.fitFailure = res.reason,
                   !.filterCounters = [f \in FilterNames |-> 0]]

\* numpy.sqrt, to the sixteenth below
sqrt(q) ==
    IF ~IsFinite(q) \/ RLt(q, Zero) THEN NaN
    ELSE LET m == (q[1] * 256) \div q[2]
         IN  Frac(CHOOSE k \in 0 .. m : k * k <= m /\ m < (k + 1) * (k + 1), 16)

\* line 130 for the first exon of the cluster, callable, with the locals
\* that lines 98-126 leave
atLine130(c, res) ==
    [c EXCEPT !.pc = "line130",
              !.robustGaussianParams = <<res.meanRG, sqrt(res.sdSq)>>,
              !.outcome = <<"none">>]

InitCNCalls ==
    /\ \E n \in 1 .. MaxClusterExons : \E countsNorm \in [1 .. n -> CountsRowChoices] :
       \E c \in ClusterChoices :
          \/ cn = CNCallsEntry(countsNorm, c)
          \/ cn = inFirstCluster(CNCallsEntry(countsNorm, c),
                                 extractClusterInfos(c.clusters[1], c.clusts2Samps, c.clusts2Ctrls,
                                                     c.sex2Clust, AutosomeMask(n)))
          \/ \E fit \in GammaFitOutcomes :
             \E first \in {inFirstCluster(CNCallsEntry(countsNorm, c),
                                          extractClusterInfos(c.clusters[1], c.clusts2Samps,
                                                              c.clusts2Ctrls, c.sex2Clust,
                                                              AutosomeMask(n)))} :
             \E fitted \in {afterFit(first, fitGammaDistribution(first.clusterCounting, fit))} :
                /\ fitted.pc = "line111"
                /\ \E res \in {exonFiltering(fitted.clusterCounting[1], fitted.uncovExonThreshold)} :
                    /\ res.filter = "none"
                    /\ cn = atLine130(fitted, res)
    /\ args = Idle /\ dec = Idle /\ hmm = Idle /\ lk = Idle

raiseCN(c, type, line) == [c EXCEPT !.pc = "raised", !.error = [type |-> type, line |-> line]]

\* line 65: allocateEmissionArray, line 201, raises TypeError
AllocateEmissionArray ==
    /\ cn.pc = "line65"
    /\ cn' = raiseCN(cn, "TypeError", 201)
    /\ UNCHANGED <<args, dec, hmm, lk>>

FitGammaDistribution ==
    /\ cn.pc = "line98"
    /\ \E fit \in GammaFitOutcomes : cn' = afterFit(cn, fitGammaDistribution(cn.clusterCounting, fit))
    /\ UNCHANGED <<args, dec, hmm, lk>>

ExonLoop == cn.pc = "line111" /\ cn.exon < Len(cn.clusterCounting)

ExonsDone == cn.pc = "line111" /\ cn.exon >= Len(cn.clusterCounting)

\* lines 111-126: exonFiltering returns None, one counter was incremented
afterFiltered(c, res) ==
    [c EXCEPT !.exon = c.exon + 1,
              !.filterCounters[res.filter] = @ + 1,
              !.outcome = Append(c.outcome, res.filter)]

ExonFiltered ==
    /\ ExonLoop
    /\ \E res \in {exonFiltering(cn.clusterCounting[cn.exon + 1], cn.uncovExonThreshold)} :
        /\ res.filter \in FilterNames
        /\ cn' = afterFiltered(cn, res)
    /\ UNCHANGED <<args, dec, hmm, lk>>

\* lines 111-128: exonFiltering returns the Gaussian; filterCounters has no
\* key "ExonsCalls" (line 98), so that line 128 raises KeyError
afterCalled(c, res) ==
    [raiseCN(c, "KeyError", 128) EXCEPT !.outcome = Append(c.outcome, res.filter)]

ExonCalled ==
    /\ ExonLoop
    /\ \E res \in {exonFiltering(cn.clusterCounting[cn.exon + 1], cn.uncovExonThreshold)} :
        /\ res.filter = "none"
        /\ cn' = afterCalled(cn, res)
    /\ UNCHANGED <<args, dec, hmm, lk>>

\* the position in a list of the first element equal to v, list.index(v)
index(list, v) == CHOOSE k \in 1 .. Len(list) : list[k] = v /\ \A j \in 1 .. k - 1 : list[j] # v

\* lines 138-142: an entry still at -1 receives the value, any other entry
\* is kept ('erase previous probabilities values' is logged)
storeSlice(slice, probNorm) ==
    [val \in States |-> IF slice[val] = MinusOne THEN probNorm[val] ELSE slice[val]]

\* lines 132-142 for the samples i of clusts2Samps[clustID] from the k-th on
RECURSIVE storeSamples(_, _, _)
storeSamples(c, samps, k) ==
    IF k > Len(samps) THEN c
    ELSE LET i == samps[k]
             row == c.exonsIndex2Process[c.exon + 1] + 1
             sample_data == c.clusterCounting[c.exon + 1][index(c.sampleIndex2Process, i)]
             probNorm == computeProbabilites(sample_data, c.gammaParameters, c.uncovExonThreshold,
                                             c.priors, c.robustGaussianParams)
         IN  storeSamples([c EXCEPT !.emissionArray[row][i + 1] = storeSlice(@, probNorm)],
                          samps, k + 1)

\* lines 130-142, then the next turn of the exon loop
StoreProbabilities ==
    /\ cn.pc = "line130"
    /\ \E stored \in {storeSamples(cn, cn.clusts2Samps[cn.clusters[cn.clustIndex]], 1)} :
        cn' = [stored EXCEPT !.pc = "line111", !.exon = cn.exon + 1]
    /\ UNCHANGED <<args, dec, hmm, lk>>

\* lines 144 and 81-88 for the next cluster: extractClusterInfos, then
\* numpy.arange(countsNorm[1]) raises TypeError, a row of three values is
\* not a length
afterSelect(c, infos) ==
    [raiseCN(c, "TypeError", 88) EXCEPT !.clustIndex = c.clustIndex + 1,
                                        !.clusts2Samps = infos.clusts2Samps,
                                        !.sampleIndex2Process = infos.sampleIndex2Process,
                                        !.exonsIndex2Process = infos.exonsIndex2Process]

SelectNextCluster ==
    /\ ExonsDone
    /\ cn.clustIndex < Len(cn.clusters)
    /\ cn' = afterSelect(cn, extractClusterInfos(cn.clusters[cn.clustIndex + 1], cn.clusts2Samps,
                                                 cn.clusts2Ctrls, cn.sex2Clust,
                                                 cn.maskAutosome_Gonosome))
    /\ UNCHANGED <<args, dec, hmm, lk>>

\* lines 144-148 after the last cluster
ReturnEmissionArray ==
    /\ ExonsDone
    /\ cn.clustIndex >= Len(cn.clusters)
    /\ cn' = [cn EXCEPT !.pc = "returned"]
    /\ UNCHANGED <<args, dec, hmm, lk>>

NextCNCalls ==
    \/ AllocateEmissionArray
    \/ FitGammaDistribution
    \/ ExonFiltered
    \/ ExonCalled
    \/ StoreProbabilities
    \/ SelectNextCluster
    \/ ReturnEmissionArray

SpecCNCalls == InitCNCalls /\ [][NextCNCalls]_vars

\* the slice of emissionArray of the exon judged e-th and SOI s (0-based)
EmissionRow(e, s) == cn.emissionArray[cn.exonsIndex2Process[e] + 1][s + 1]

SampsOf(clustID) == {cn.clusts2Samps[clustID][i] : i \in 1 .. Len(cn.clusts2Samps[clustID])}

AdjustedAt(i) ==
    adjustTransMatrix(args.transMatrix, args.priors,
                      Exon(args.exons, dec.calledExons[i]).start
                        - Exon(args.exons, dec.calledExons[i - 1]).end - 1,
                      args.dmax).m

\* probability of the best path through prevState to state c of the exon at position i
ProbVia(i, prevState, c) ==
    RMul(RMul(dec.bestPathProbas[i - 1][prevState], AdjustedAt(i)[prevState][c]),
         LikRow(args.likelihoods, dec.calledExons[i])[c])

Maximisers(i, c) ==
    {k \in States : \A j \in States : RGe(ProbVia(i, k, c), ProbVia(i, j, c))}

\* the best predecessor as specified: CN2 on a tie or when the maximum is 0
SpecifiedBestPrev(i, c) ==
    IF Cardinality(Maximisers(i, c)) >= 2 \/ (\A k \in States : ProbVia(i, k, c) = Zero)
    THEN 2
    ELSE CHOOSE k \in Maximisers(i, c) : TRUE

\* C19: for every exon appended to the buffers after another one, and every
\* state c, the recorded best predecessor path[i][c] is CN2 when two or more
\* previous states reach the maximal probability or when that maximum is 0,
\* and the unique maximising previous state otherwise.
C19_TieGoesToCN2 ==
    dec.pc = "loop" =>
        \A i \in 2 .. Len(dec.path) : \A c \in States :
            dec.path[i][c] = SpecifiedBestPrev(i, c)

\* two previous states tie at a positive maximum and line 232 kept the first
C19_Witness ==
    /\ dec.pc = "loop"
    /\ \E i \in 2 .. Len(dec.path) : \E c \in States :
        /\ Cardinality(Maximisers(i, c)) >= 2
        /\ \E k \in States : RGt(ProbVia(i, k, c), Zero)
        /\ dec.path[i][c] # 2
        /\ dec.path[i][c] \in Maximisers(i, c)
        /\ \A k \in Maximisers(i, c) : dec.path[i][c] <= k

\* C20: the forward probabilities and the CN2 path probabilities are defined
\* non-negative numbers after any sequence of exons, a quotient 0/0 of the
\* CN2-rebase step counting as 0: none is NaN or infinite.
C20_ProbasDefined ==
    dec.pc = "loop" =>
        /\ \A c \in States : IsFinite(dec.probsPrev[c]) /\ RGe(dec.probsPrev[c], Zero)
        /\ \A i \in 1 .. Len(dec.CN2PathProbas) :
              IsFinite(dec.CN2PathProbas[i]) /\ RGe(dec.CN2PathProbas[i], Zero)

\* the rebase has just divided 0 by 0: the buffers hold the current exon
\* only and its CN2 path probability is NaN
C20_Witness ==
    /\ dec.pc = "loop"
    /\ Len(dec.calledExons) = 1
    /\ IsNaN(dec.CN2PathProbas[1])

\* the sample at position i of samples has been through the try of lines 48-51
Attempted(i) ==
    \/ i <= hmm.sampIndex
    \/ hmm.pc = "raised" /\ hmm.errors # <<>> /\ i = hmm.sampIndex + 1

\* the parameters of callCNVsOneSample hold the caller's values of the same name
BoundAsNamed(a, sampID) ==
    /\ a.sampleID = PyStr(sampID)
    /\ a.transMatrix = PyMatrix(hmm.transMatrix)
    /\ a.priors = PyVector(hmm.priors)

\* C14: every CNV record of the lists applyHMM builds carries the identifier
\* of the sample whose likelihoods were decoded, and every decoding has run
\* with the caller's transition matrix as transMatrix, the caller's priors
\* as priors and the sample's identifier as sampleID.
C14_DecodedAsCalled ==
    hmm.pc # "idle" =>
        /\ \A i \in 1 .. Len(hmm.samples) :
            Attempted(i) =>
                /\ hmm.samples[i] \in DOMAIN hmm.likelihoods_A =>
                      BoundAsNamed(argsOfCall(hmm.likelihoods_A[hmm.samples[i]], hmm,
                                              hmm.samples[i], hmm.autosomeExons), hmm.samples[i])
                /\ hmm.samples[i] \in DOMAIN hmm.likelihoods_G =>
                      BoundAsNamed(argsOfCall(hmm.likelihoods_G[hmm.samples[i]], hmm,
                                              hmm.samples[i], hmm.gonosomeExons), hmm.samples[i])
        /\ \A k \in 1 .. Len(hmm.CNVs_A) : hmm.CNVs_A[k].sampleID.kind = "str"
        /\ \A k \in 1 .. Len(hmm.CNVs_G) : hmm.CNVs_G[k].sampleID.kind = "str"

\* a sample with likelihoods on the autosomes has been decoded with the
\* transition matrix bound to sampleID and the priors bound to transMatrix
C14_Witness ==
    /\ hmm.pc # "idle"
    /\ \E i \in 1 .. Len(hmm.samples) :
        /\ Attempted(i)
        /\ hmm.samples[i] \in DOMAIN hmm.likelihoods_A
        /\ argsOfCall(hmm.likelihoods_A[hmm.samples[i]], hmm, hmm.samples[i],
                      hmm.autosomeExons).sampleID = PyMatrix(hmm.transMatrix)
        /\ argsOfCall(hmm.likelihoods_A[hmm.samples[i]], hmm, hmm.samples[i],
                      hmm.autosomeExons).transMatrix = PyVector(hmm.priors)

\* C15: when the decoding of every sample has succeeded, applyHMM ends
\* normally and returns the two CNV lists, empty or not: countCNVs does not fail.
C15_ReturnsWhenAllDecoded ==
    (hmm.pc \in {"returned", "raised"} /\ hmm.errors = <<>>) => hmm.pc = "returned"

\* every sample was decoded without error, no CNV was called, and applyHMM
\* has ended with the exception of countCNVs
C15_Witness ==
    /\ hmm.pc = "raised"
    /\ hmm.errors = <<>>
    /\ hmm.sampIndex = Len(hmm.samples)
    /\ hmm.CNVs_A = <<>> /\ hmm.CNVs_G = <<>>

(***************************************************************************)
(* The no-call sentinel of computeProbabilites.                            *)
(***************************************************************************)
\* the four densities of the call that returned, each times its prior
WeightedDensities ==
    [s \in States |->
        RMul(probability_densities(lk.sample_data, lk.params, lk.gamma_threshold,
                                   lk.robustGaussianParams[1], lk.robustGaussianParams[2])[s],
             lk.prior_probabilities[s])]

\* C18: when the four prior-weighted densities of a sample on a callable
\* exon are all 0, computeProbabilites returns the no-call row of four -1,
\* never the result of the division by their sum.
C18_SentinelWhenSumZero ==
    (lk.pc = "returned" /\ lk.fn = "computeProbabilites"
        /\ \A s \in States : WeightedDensities[s] = Zero)
    => lk.probNorm = NoCallRow

\* computeProbabilites has returned for a sample whose four weighted
\* densities are all 0
C18_Witness ==
    /\ lk.pc = "returned" /\ lk.fn = "computeProbabilites"
    /\ \A s \in States : WeightedDensities[s] = Zero
    /\ \A s \in States : IsNaN(lk.probNorm[s])

(***************************************************************************)
(* exonFiltering called on its own (copyNumbersCalls.py lines 361-428):    *)
(* one vector of FPM values filtered twice, with a threshold and with a    *)
(* threshold at least as high, on the same dictionary of counters.         *)
(***************************************************************************)
ExonFPMChoices ==
    {<<Zero, Zero, Zero>>,
     <<Zero, Zero, Int2R(3)>>,
     <<Int2R(3), Int2R(3), Int2R(3)>>,
     <<Zero, Int2R(3), Int2R(4)>>,
     <<Frac(1, 4), Frac(1, 2), Int2R(12)>>,
     <<Zero, Int2R(1), Int2R(2), Int2R(2)>>,
     <<Zero, Zero, Int2R(2), Int2R(3), Int2R(4)>>}

UncovExonThresholdChoices == {Zero, Frac(1, 2), Int2R(2), Int2R(10)}

InitExonFiltering ==
    /\ \E exonFPM \in ExonFPMChoices :
       \E t1 \in UncovExonThresholdChoices, t2 \in UncovExonThresholdChoices :
        /\ RLe(t1, t2)
        /\ cn = [fn |-> "exonFiltering", pc |-> "called",
                 exonFPM |-> exonFPM, thresholds |-> <<t1, t2>>,
                 filterCounters |-> [f \in FilterNames |-> 0],
                 returned |-> <<>>]
    /\ args = Idle /\ dec = Idle /\ hmm = Idle /\ lk = Idle

\* one call: the counter named by the result is incremented (lines 372,
\* 386, 401, 414, 425) or the Gaussian is returned (line 428); an
\* exception other than "cannot fit" leaves the function (line 389)
afterExonFiltering(c, res) ==
    [c EXCEPT !.returned = Append(@, res),
              !.filterCounters = IF res.filter \in FilterNames
                                 THEN [@ EXCEPT ![res.filter] = @ + 1] ELSE @,
              !.pc = IF res.filter = "raise" THEN "raised"
                     ELSE IF Len(c.returned) + 1 = Len(c.thresholds) THEN "returned"
                     ELSE "called"]

ExonFiltering ==
    /\ cn.pc = "called" /\ cn.fn = "exonFiltering"
    /\ \E res \in {exonFiltering(cn.exonFPM, cn.thresholds[Len(cn.returned) + 1])} :
        cn' = afterExonFiltering(cn, res)
    /\ UNCHANGED <<args, dec, hmm, lk>>

NextExonFiltering == ExonFiltering

SpecExonFiltering == InitExonFiltering /\ [][NextExonFiltering]_vars

\* C13: for one FPM vector, when exonFiltering rejects the exon as
\* pseudoZscore<3 with a threshold, it returns no Gaussian with any
\* threshold at least as high: raising the threshold never makes a
\* rejected exon callable.
C13_LowZStaysRejected ==
    (cn.fn = "exonFiltering" /\ Len(cn.returned) = 2
        /\ cn.returned[1].filter = "pseudoZscore<3")
    => cn.returned[2].filter # "none"

\* both calls are done, the first rejected for its z-score with a threshold
\* strictly below the second
C13_Witness ==
    /\ cn.fn = "exonFiltering" /\ Len(cn.returned) = 2
    /\ cn.returned[1].filter = "pseudoZscore<3"
    /\ RLt(cn.thresholds[1], cn.thresholds[2])
    /\ cn.returned[2].filter = "pseudoZscore<3"

\* the rules as the documentation lists them, each with its tag, for a fit
\* that gave mu and sigma^2 or failed
RulesInOrder(X, t, fit) ==
    <<[tag |-> "med=0", fires |-> median(X) = Zero],
      [tag |-> "cannotFitRG", fires |-> ~fit.ok],
      [tag |-> "meanRG=0", fires |-> fit.ok /\ fit.mu = Zero],
      [tag |-> "pseudoZscore<3",
       fires |-> fit.ok /\ ~(/\ RGe(RSub(fit.mu, t), Zero)
                             /\ RGe(RSq(RSub(fit.mu, t)), RMul(Int2R(9), fit.sigmaSq)))],
      [tag |-> "sampleContribution2RG<0.5",
       fires |-> fit.ok /\ 2 * Cardinality({i \in DOMAIN X :
                                 RLt(RSq(RSub(X[i], fit.mu)), RMul(Int2R(4), fit.sigmaSq))})
                            < Len(X)]>>

\* the tag of the first rule that fires, or the Gaussian when none does
FirstRuleOutcome(X, t, fit) ==
    LET rules == RulesInOrder(X, t, fit)
        firing == {r \in DOMAIN rules : rules[r].fires}
    IN  IF firing = {} THEN [filter |-> "none", meanRG |-> fit.mu, sdSq |-> fit.sigmaSq]
        ELSE [filter |-> rules[CHOOSE r \in firing : \A q \in firing : r <= q].tag]

\* C16: every call of exonFiltering gives the outcome of the first rule
\* that fires in the order median 0, fit impossible, mean 0, z-score below
\* 3, weight below 0.5, and the Gaussian when none fires; each rejection
\* has incremented its own counter once and a callable exon none.
C16_FirstRuleDecides ==
    cn.fn = "exonFiltering" =>
        /\ \A k \in 1 .. Len(cn.returned) :
            \E fit \in {fitRobustGaussian(cn.exonFPM)} :
                cn.returned[k] = FirstRuleOutcome(cn.exonFPM, cn.thresholds[k], fit)
        /\ \A f \in FilterNames :
            cn.filterCounters[f] =
                Cardinality({k \in 1 .. Len(cn.returned) : cn.returned[k].filter = f})

\* one vector rejected for its weight with the low threshold and for its
\* z-score with the high one
C16_Witness ==
    /\ cn.fn = "exonFiltering" /\ Len(cn.returned) = 2
    /\ cn.returned[1].filter = "sampleContribution2RG<0.5"
    /\ cn.returned[2].filter = "pseudoZscore<3"
    /\ cn.filterCounters["sampleContribution2RG<0.5"] = 1
    /\ cn.filterCounters["pseudoZscore<3"] = 1

AllEqualNonZero(X) == X[1] # Zero /\ \A i \in DOMAIN X : X[i] = X[1]

\* C17: an exon whose FPM values are all the same non-zero value is not
\* rejected as impossible to fit; when it is returned callable its mean is
\* that value and its standard deviation the twentieth of it.
C17_EqualValuesAreFitted ==
    (cn.fn = "exonFiltering" /\ AllEqualNonZero(cn.exonFPM))
    => \A k \in 1 .. Len(cn.returned) :
        /\ cn.returned[k].filter # "cannotFitRG"
        /\ cn.returned[k].filter = "none"
            => /\ cn.returned[k].meanRG = cn.exonFPM[1]
               /\ cn.returned[k].sdSq = RSq(RMul(cn.exonFPM[1], Frac(1, 20)))

\* exonFiltering has counted a vector of equal non-zero values as
\* impossible to fit
C17_Witness ==
    /\ cn.fn = "exonFiltering" /\ AllEqualNonZero(cn.exonFPM)
    /\ Len(cn.returned) = 1
    /\ cn.returned[1].filter = "cannotFitRG"
    /\ cn.filterCounters["cannotFitRG"] = 1

(***************************************************************************)
(* The counts handed to the fit of each cluster.                           *)
(***************************************************************************)
\* the dictionaries as the caller of CNCalls supplied them
\* (extractClusterInfos only ever extends a list of clusts2Samps)
IsPrefix(short, long) ==
    Len(short) <= Len(long) /\ \A k \in 1 .. Len(short) : short[k] = long[k]

Supplied ==
    CHOOSE c \in ClusterChoices :
        /\ c.clusters = cn.clusters
        /\ \A k \in DOMAIN c.clusts2Samps : IsPrefix(c.clusts2Samps[k], cn.clusts2Samps[k])

RECURSIVE SampsOfClusters(_, _)
SampsOfClusters(clusts2Samps, clustIDs) ==
    IF clustIDs = <<>> THEN <<>>
    ELSE clusts2Samps[Head(clustIDs)] \o SampsOfClusters(clusts2Samps, Tail(clustIDs))

\* the samples of a cluster followed by the samples of its controls
ClusterAndControls(clustID) ==
    Supplied.clusts2Samps[clustID]
        \o (IF clustID \in DOMAIN Supplied.clusts2Ctrls
            THEN SampsOfClusters(Supplied.clusts2Samps, Supplied.clusts2Ctrls[clustID])
            ELSE <<>>)

\* the exons of the chromosome type of a cluster
ExonsOfType(clustID) ==
    SelectSeq([i \in 1 .. Len(cn.countsNorm) |-> i - 1],
              LAMBDA e : cn.maskAutosome_Gonosome[e + 1] = (clustID \in cn.sex2Clust.A))

SuppliedSamps ==
    UNION {{Supplied.clusts2Samps[cn.clusters[k]][j] :
                j \in 1 .. Len(Supplied.clusts2Samps[cn.clusters[k]])} :
           k \in 1 .. cn.clustIndex}

LastCalledPos ==
    IF Last(dec.calledExons) = -1 THEN Len(dec.calledExons) - 1 ELSE Len(dec.calledExons)

\* C21: a path pending in a non-CN2 state is finalised at the end of the
\* exon list: when the most likely state of the last called exon (the
\* argmax of its bestPathProbas) is a state c other than CN2, the call
\* returns a CNV of state c whose lastExonIdx is that exon, also when the
\* CNV is that single exon or starts right after a rebase on CN2.
C21_PendingPathFinalised ==
    (Returned /\ dec.calledExons # <<>>) =>
        LET c == argmax(dec.bestPathProbas[LastCalledPos])
        IN  c # 2 => \E i \in 1 .. Len(dec.CNVs) :
                        /\ dec.CNVs[i].cnState = c
                        /\ dec.CNVs[i].lastExonIdx = dec.calledExons[LastCalledPos]

\* the call returned without any CNV although its only called exon is most
\* likely in a non-CN2 state
C21_Witness ==
    /\ Returned /\ Len(dec.calledExons) = 1
    /\ argmax(dec.bestPathProbas[1]) # 2
    /\ dec.CNVs = <<>>

(***************************************************************************)
(* The probability of the path that stays in CN2.                          *)
(***************************************************************************)
\* the called exons before exon e on the chromosome of e
CalledBefore(e) ==
    {f \in 0 .. e - 1 : /\ Exon(args.exons, f).chrom = Exon(args.exons, e).chrom
                        /\ LikRow(args.likelihoods, f) # NoCallRow}

\* the factor of called exon e in a path that is in CN2 before e and at e:
\* the adjusted transition CN2 -> CN2 times the likelihood of CN2
StayInCN2(e) ==
    LET before == CalledBefore(e)
        prevEnd == IF before = {} THEN -args.dmax
                   ELSE Exon(args.exons, CHOOSE f \in before : \A g \in before : g <= f).end
        d == Exon(args.exons, e).start - prevEnd - 1
    IN  RMul(adjustTransMatrix(args.transMatrix, args.priors, d, args.dmax).m[2][2],
             LikRow(args.likelihoods, e)[2])

\* the path root in CN2 with probability 1, then CN2 at every buffered
\* exon up to position i
RECURSIVE StraightCN2Proba(_)
StraightCN2Proba(i) ==
    IF i = 0 THEN One ELSE RMul(StraightCN2Proba(i - 1), StayInCN2(dec.calledExons[i]))

\* C22: for every called exon in the buffers, CN2PathProbas holds the
\* probability of the one path that starts at the path root in CN2 and is
\* in CN2 at every called exon up to that one: the product of the adjusted
\* CN2 -> CN2 transitions and of the likelihoods of CN2 since the root, also
\* when the best path to CN2 went through another state and after a rebase.
C22_CN2PathIsStraightCN2 ==
    dec.pc = "loop" =>
        \A i \in 1 .. Len(dec.CN2PathProbas) : dec.CN2PathProbas[i] = StraightCN2Proba(i)

\* CN2PathProbas of a buffered exon is a number above the probability of
\* the path that stays in CN2
C22_Witness ==
    /\ dec.pc = "loop"
    /\ \E i \in 1 .. Len(dec.CN2PathProbas) :
        /\ IsFinite(dec.CN2PathProbas[i])
        /\ RGt(dec.CN2PathProbas[i], StraightCN2Proba(i))

(***************************************************************************)
(* The quality scores.                                                     *)
(***************************************************************************)
\* C23: every quality score is a finite real number: math.log never
\* raises, and for every CNV built the ratio given to the logarithm is a
\* finite number above 0, none of its divisors being 0, whatever zeros the
\* likelihoods contain.
C23_QualityScoreFinite ==
    dec.pc # "idle" =>
        /\ dec.pc # "raised"
        /\ \A i \in 1 .. Len(dec.CNVs) :
            /\ IsFinite(dec.CNVs[i].qualityScore.logOf)
            /\ RGt(dec.CNVs[i].qualityScore.logOf, Zero)

\* a call returned a CNV whose quality score is the logarithm of a
\* division by 0
C23_Witness ==
    /\ Returned
    /\ \E i \in 1 .. Len(dec.CNVs) : ~IsFinite(dec.CNVs[i].qualityScore.logOf)

(***************************************************************************)
(* The no-call exons.                                                      *)
(***************************************************************************)
\* C24: a no-call exon changes nothing in the decoder: probsPrev, prevEnd,
\* prevChrom, the CNVs and the four buffers are after it what they were
\* before it, on the chromosome of the previous called exon or on a new
\* one; only the loop index moves on.
C24_NoCallChangesNothing ==
    [][(/\ dec.pc = "loop"
        /\ dec.exonIndex < Len(args.exons)
        /\ LikRow(args.likelihoods, dec.exonIndex) = NoCallRow)
       => dec' = [dec EXCEPT !.exonIndex = dec.exonIndex + 1]]_vars

\* a no-call exon on a new chromosome has just been skipped with exons in
\* the buffers, and prevChrom is still the chromosome of these
C24_Witness ==
    /\ dec.pc = "loop" /\ dec.exonIndex >= 1
    /\ LikRow(args.likelihoods, dec.exonIndex - 1) = NoCallRow
    /\ Exon(args.exons, dec.exonIndex - 1).chrom # dec.prevChrom
    /\ dec.calledExons # <<>>
    /\ dec.prevEnd = Exon(args.exons, Last(dec.calledExons)).end

(***************************************************************************)
(* The distance used for the first called exon of a chromosome.            *)
(***************************************************************************)
\* C25: for the first called exon of every chromosome, at the start and
\* after each reset, the distance given to adjustTransMatrix, the start of
\* the exon minus prevEnd minus 1 with prevEnd = -dmax, is at least dmax,
\* whatever the start of the exon from 0 on: the priors are used.
C25_FirstExonAtPriorDistance ==
    (/\ dec.pc = "loop" /\ dec.calledExons # <<>>
     /\ CalledBefore(Last(dec.calledExons)) = {})
    => dec.distFromPrevEx >= args.dmax

\* the first called exon of a chromosome starts at 0 and was decoded with a
\* distance below dmax
C25_Witness ==
    /\ dec.pc = "loop" /\ dec.calledExons # <<>>
    /\ CalledBefore(Last(dec.calledExons)) = {}
    /\ Exon(args.exons, Last(dec.calledExons)).start = 0
    /\ dec.distFromPrevEx = args.dmax - 1

(***************************************************************************)
(* The exons that delimit the CNVs.                                        *)
(***************************************************************************)
IsCalledExonIdx(e) ==
    /\ e \in 0 .. Len(args.exons) - 1
    /\ LikRow(args.likelihoods, e) # NoCallRow

\* C28: firstExonIdx and lastExonIdx of every CNV are indexes of called
\* exons of the exon list; the index -1 of the bogus exon that buildCNVs
\* appends when the last state is not CN2 is never one of them.
C28_EndpointsAreCalledExons ==
    dec.pc # "idle" =>
        \A i \in 1 .. Len(dec.CNVs) :
            /\ IsCalledExonIdx(dec.CNVs[i].firstExonIdx)
            /\ IsCalledExonIdx(dec.CNVs[i].lastExonIdx)

\* the call returned after buildCNVs appended the bogus exon, with a CNV
\* that ends on the called exon right before it
C28_Witness ==
    /\ Returned /\ Len(dec.calledExons) >= 2
    /\ Last(dec.calledExons) = -1
    /\ \E i \in 1 .. Len(dec.CNVs) :
        dec.CNVs[i].lastExonIdx = dec.calledExons[Len(dec.calledExons) - 1]

(***************************************************************************)
(* The sign of the quality scores.                                         *)
(***************************************************************************)
\* calls on exactly LongExons exons of one chromosome, with likelihoods that
\* are all above 0 (no path has probability 0): long enough for a CNV that
\* follows another CNV in the same buffers
LongExons == 4

LongGapChoices == {"adjacent", "far"}

LikWTPositive == V4(Frac(1, 8), Frac(1, 8), Frac(5, 8), Frac(1, 8))
LikDELPositive == V4(Frac(1, 8), Frac(1, 2), Frac(1, 4), Frac(1, 8))
LikHOMDELPositive == V4(Frac(5, 8), Frac(1, 8), Frac(1, 8), Frac(1, 8))
LikHOMDELStrong == V4(Frac(13, 16), Frac(1, 16), Frac(1, 16), Frac(1, 16))

LongLikChoices ==
    {NoCallRow, LikWTPositive, LikDELPositive, LikHOMDELPositive, LikHOMDELStrong}

InitViterbiLong ==
    \E liks \in [1 .. LongExons -> LongLikChoices],
       gaps \in [2 .. LongExons -> LongGapChoices], dmax \in DmaxChoices :
        /\ args = DecoderArgs(liks, gaps, 1, dmax, HMMStd)
        /\ dec = initLocals(args)
        /\ hmm = Idle /\ lk = Idle /\ cn = Idle

SpecViterbiLong == InitViterbiLong /\ [][NextViterbi]_vars

\* the called exon that follows exon e on its chromosome, -1 if there is none
NextCalled(e) ==
    LET after == {f \in e + 1 .. Len(args.exons) - 1 :
                    /\ Exon(args.exons, f).chrom = Exon(args.exons, e).chrom
                    /\ LikRow(args.likelihoods, f) # NoCallRow}
    IN  IF after = {} THEN -1 ELSE CHOOSE f \in after : \A g \in after : f <= g

\* CNV i lies between two called exons in CN2: a called exon precedes it and
\* a called exon follows it on its chromosome, and no other CNV of the list
\* touches it on either side
FlankedByCN2(i) ==
    /\ CalledBefore(dec.CNVs[i].firstExonIdx) # {}
    /\ NextCalled(dec.CNVs[i].lastExonIdx) # -1
    /\ \A j \in 1 .. Len(dec.CNVs) :
        /\ dec.CNVs[j].firstExonIdx # NextCalled(dec.CNVs[i].lastExonIdx)
        /\ NextCalled(dec.CNVs[j].lastExonIdx) # dec.CNVs[i].firstExonIdx

\* C29: a CNV whose flanking called exons are both in CN2 has a quality
\* score of at least 0: the ratio given to the logarithm, best path over
\* CN2-only path between the flanking exons, is at least 1, also for CNVs
\* built right after a rebase and for CNVs that follow another CNV.
C29_QualityScoreNotNegative ==
    Returned =>
        \A i \in 1 .. Len(dec.CNVs) :
            FlankedByCN2(i) => RGe(dec.CNVs[i].qualityScore.logOf, One)

\* a returned CNV flanked by CN2 on both sides follows another CNV and has a
\* ratio that is a number, at least 1
C29_Witness ==
    /\ Returned
    /\ \E i \in 1 .. Len(dec.CNVs) :
        /\ FlankedByCN2(i)
        /\ IsFinite(dec.CNVs[i].qualityScore.logOf)
        /\ RGe(dec.CNVs[i].qualityScore.logOf, One)
        /\ \E j \in 1 .. Len(dec.CNVs) :
            dec.CNVs[j].lastExonIdx < dec.CNVs[i].firstExonIdx

(***************************************************************************)
(* The accounting of the exons of a cluster in filterCounters.             *)
(***************************************************************************)
\* the exons that the counters of the cluster account for: the five filter
\* counters, and the counter of the called exons when the dictionary has it
ExonsCounted ==
    cn.filterCounters["med=0"] + cn.filterCounters["cannotFitRG"]
    + cn.filterCounters["meanRG=0"] + cn.filterCounters["pseudoZscore<3"]
    + cn.filterCounters["sampleContribution2RG<0.5"]
    + (IF "ExonsCalls" \in DOMAIN cn.filterCounters THEN cn.filterCounters["ExonsCalls"] ELSE 0)

FirstExonStored ==
    /\ cn.clustIndex = 1
    /\ cn.outcome # <<>> /\ cn.outcome[1] = "none"
    /\ cn.exon >= 1

\* the probabilities of the FPM of exon e (row of countsNorm) and sample s
ProbabilitiesOf(e, s) ==
    computeProbabilites(cn.countsNorm[e + 1][s + 1], cn.gammaParameters, cn.uncovExonThreshold,
                        cn.priors, cn.robustGaussianParams)

ExtractSamps ==
    [c \in {"c1", "c2", "c3"} |-> CASE c = "c1" -> <<0, 1>> [] c = "c2" -> <<2>> [] OTHER -> <<3>>]

\* no controls, or clusters that have earlier clusters as controls
ExtractCtrlsChoices ==
    {<<>>,
     [c \in {"c2"} |-> <<"c1">>],
     [c \in {"c2", "c3"} |-> IF c = "c2" THEN <<"c1">> ELSE <<"c2">>],
     [c \in {"c2", "c3"} |-> IF c = "c2" THEN <<"c1">> ELSE <<"c1", "c2">>]}

\* the orders in which the dictionary may list its keys
ExtractKeyOrders ==
    {<<a, b, c>> : a, b, c \in {"c1", "c2", "c3"}} \ {o \in {<<a, b, c>> : a, b, c \in {"c1", "c2", "c3"}} :
                                                        o[1] = o[2] \/ o[1] = o[3] \/ o[2] = o[3]}

\* sex2Clust is None, or names the clusters of the autosomes and of the gonosomes
ExtractSex2ClustChoices == {<<>>, [A |-> {"c1", "c2"}, G |-> {"c3"}]}

ExtractMaskChoices == {<<TRUE, TRUE>>, <<TRUE, FALSE>>}

InitExtract ==
    /\ \E ctrls \in ExtractCtrlsChoices, order \in ExtractKeyOrders,
          sex \in ExtractSex2ClustChoices, mask \in ExtractMaskChoices :
        cn = [fn |-> "extractClusterInfos", pc |-> "line81",
              clusters |-> order, clustIndex |-> 0,
              clusts2Samps |-> ExtractSamps, clusts2Ctrls |-> ctrls,
              sex2Clust |-> sex, maskAutosome_Gonosome |-> mask,
              sampleIndex2Process |-> Unbound, exonsIndex2Process |-> Unbound]
    /\ args = Idle /\ dec = Idle /\ hmm = Idle /\ lk = Idle

\* line 85: the returned lists are bound, and the dictionary is what the
\* call has made of it
afterExtract(c, infos) ==
    [c EXCEPT !.clustIndex = c.clustIndex + 1,
              !.clusts2Samps = infos.clusts2Samps,
              !.sampleIndex2Process = infos.sampleIndex2Process,
              !.exonsIndex2Process = infos.exonsIndex2Process]

ExtractClusterInfos ==
    /\ cn.pc = "line81" /\ cn.fn = "extractClusterInfos"
    /\ cn.clustIndex < Len(cn.clusters)
    /\ cn' = afterExtract(cn, extractClusterInfos(cn.clusters[cn.clustIndex + 1], cn.clusts2Samps,
                                                  cn.clusts2Ctrls, cn.sex2Clust,
                                                  cn.maskAutosome_Gonosome))
    /\ UNCHANGED <<args, dec, hmm, lk>>

NextExtract == ExtractClusterInfos

SpecExtract == InitExtract /\ [][NextExtract]_vars

\* the samples of a cluster followed by those of its controls, as supplied
OwnAndControls(clustID) ==
    ExtractSamps[clustID]
        \o (IF clustID \in DOMAIN cn.clusts2Ctrls
            THEN SampsOfClusters(ExtractSamps, cn.clusts2Ctrls[clustID])
            ELSE <<>>)

\* C27: extractClusterInfos leaves its inputs unchanged: after a call
\* clusts2Samps holds for every cluster exactly the samples of that cluster,
\* and the list returned for a cluster is its samples followed by those of
\* its controls, whatever the order in which the clusters are processed.
C27_InputsUnchanged ==
    (cn.fn = "extractClusterInfos" /\ cn.clustIndex >= 1) =>
        /\ cn.clusts2Samps = ExtractSamps
        /\ cn.sampleIndex2Process = OwnAndControls(cn.clusters[cn.clustIndex])

\* two orders of the keys give different lists for one cluster: called
\* after its control c2 the cluster c3 is handed a sample of c1, which is
\* not among its controls
C27_Witness ==
    /\ cn.fn = "extractClusterInfos" /\ cn.clustIndex >= 1
    /\ cn.clusters[cn.clustIndex] = "c3"
    /\ cn.clusts2Ctrls = [c \in {"c2", "c3"} |-> IF c = "c2" THEN <<"c1">> ELSE <<"c2">>]
    /\ cn.sampleIndex2Process = <<3, 2, 0, 1>>
    /\ cn.clusts2Samps["c3"] = <<3, 2, 0, 1>>

====
